---- MODULE Spec2Model ----
(***************************************************************************)
(* State-machine model of the SigNoz Terraform provider's reconciliation   *)
(* core: the alert and dashboard resources (Create / Read / Update /       *)
(* Delete / ImportState), the JSON canonicalizer (removeDefaultFields,     *)
(* isDefaultField), the semantic comparator (areJSONsSemanticallyEqual)    *)
(* and the plan modifier built on it.                                      *)
(*                                                                         *)
(* JSON is modelled at two levels that the code also keeps apart:          *)
(*   - a TEXT is what a types.String holds: a document whose objects are   *)
(*     ordered lists of members, with a whitespace marker; two texts are   *)
(*     equal only when they are the same string;                           *)
(*   - a VALUE is what encoding/json produces in an interface{}: objects   *)
(*     are maps, every number is a float64.  Values built by Go code may   *)
(*     also hold a Go int (normalizeCondition stores the literal 0).       *)
(***************************************************************************)
EXTENDS Integers, Sequences, FiniteSets, TLC

\* ------------------------------------------------------------------ JSON values
JNull == [t |-> "nil"]
JBool(b) == [t |-> "bool", b |-> b]
JNum(n) == [t |-> "float64", n |-> n]
GoInt(n) == [t |-> "int", n |-> n]
JStr(s) == [t |-> "string", s |-> s]
JArr(a) == [t |-> "slice", a |-> a]
JObj(o) == [t |-> "map", o |-> o]

\* The empty Go map.
EmptyMap == [k \in {} |-> JNull]

\* A map literal from a sequence of <<key, value>> pairs (a later pair wins,
\* as encoding/json does for a duplicate key).
MapOf(pairs) ==
  [k \in {pairs[i][1] : i \in DOMAIN pairs} |->
     LET last == CHOOSE i \in DOMAIN pairs :
                   /\ pairs[i][1] = k
                   /\ \A j \in DOMAIN pairs : pairs[j][1] = k => j <= i
     IN pairs[last][2]]

\* Object keys in the byte order json.Marshal sorts map keys by.
SortedKeys ==
  << "A", "B", "F1", "IsAnomaly", "QueriesUsedInFormula", "a", "absentFor",
     "alertOnAbsent", "b", "builderQueries", "compositeQuery", "groupBy", "h",
     "hidden", "i", "id", "promQueries", "reduceTo", "spaceAggregation", "timeAggregation",
     "title", "v", "w", "x" >>

SortKeys(S) ==
  LET Has(k) == k \in S
  IN SelectSeq(SortedKeys, Has)

\* ------------------------------------------------------------------ JSON texts
\* Documents: the syntax of a JSON text.  Objects keep the written member order.
DNull == [d |-> "null"]
DBool(b) == [d |-> "bool", b |-> b]
DNum(n) == [d |-> "number", n |-> n]
DStr(s) == [d |-> "string", s |-> s]
DArr(a) == [d |-> "array", a |-> a]
DObj(m) == [d |-> "object", m |-> m]

\* A types.String holding valid JSON: the document and whether the text carries
\* insignificant whitespace.
Text(ws, doc) == [valid |-> TRUE, ws |-> ws, doc |-> doc]
Compact(doc) == Text(FALSE, doc)
Spaced(doc) == Text(TRUE, doc)
\* A types.String that is not JSON, the empty string "", and the null string.
BadText == [valid |-> FALSE, raw |-> "{bad"]
EmptyText == [valid |-> FALSE, raw |-> ""]
NullString == [null |-> TRUE]

IsNull(s) == s = NullString

\* json.Unmarshal into interface{}: objects become maps, numbers float64.
RECURSIVE Decode(_)
Decode(doc) ==
  CASE doc.d = "null" -> JNull
    [] doc.d = "bool" -> JBool(doc.b)
    [] doc.d = "number" -> JNum(doc.n)
    [] doc.d = "string" -> JStr(doc.s)
    [] doc.d = "array" -> JArr([i \in DOMAIN doc.a |-> Decode(doc.a[i])])
    [] doc.d = "object" ->
         JObj(MapOf([i \in DOMAIN doc.m |-> <<doc.m[i][1], Decode(doc.m[i][2])>>]))

\* json.Marshal of an interface{}: map keys sorted, no whitespace, a Go int and
\* a float64 of the same value print the same digits.
RECURSIVE Encode(_)
Encode(v) ==
  CASE v.t = "nil" -> DNull
    [] v.t = "bool" -> DBool(v.b)
    [] v.t = "float64" -> DNum(v.n)
    [] v.t = "int" -> DNum(v.n)
    [] v.t = "string" -> DStr(v.s)
    [] v.t = "slice" -> DArr([i \in DOMAIN v.a |-> Encode(v.a[i])])
    [] v.t = "map" ->
         LET ks == SortKeys(DOMAIN v.o)
         IN DObj([i \in DOMAIN ks |-> <<ks[i], Encode(v.o[ks[i]])>>])

Marshal(v) == Compact(Encode(v))

\* Reading a key of a Go map[string]interface{}: nil when the key is absent.
Get(m, k) == IF k \in DOMAIN m THEN m[k] ELSE JNull

\* m[k] = v on a Go map.
Put(m, k, v) == [x \in DOMAIN m \cup {k} |-> IF x = k THEN v ELSE m[x]]

IsMap(v) == v.t = "map"

\* structure.ExpandJsonFromString as SetCondition uses it: json.Unmarshal into
\* a map[string]interface{}; an error for a text that is not a JSON object.
ExpandOk(text) == text.valid /\ text.doc.d = "object"

ExpandJsonFromString(text) == Decode(text.doc).o

\* structure.FlattenJsonToString as ConditionToTerraform uses it: the empty
\* string for an empty map, json.Marshal of the map otherwise.
FlattenJsonToString(m) == IF DOMAIN m = {} THEN EmptyText ELSE Marshal(JObj(m))

\* json.Unmarshal into interface{} as the comparator uses it.
UnmarshalOk(text) == text.valid

Unmarshal(text) == Decode(text.doc)

\* ------------------------------------------------- canonicalizer (resource package)
\* A rule table that takes any empty container under groupBy for the default.
isDefaultFieldEmptyContainer(key, value) ==
  CASE key = "groupBy" -> \/ value.t = "slice" /\ Len(value.a) = 0
                          \/ value.t = "map" /\ DOMAIN value.o = {}
    [] key = "IsAnomaly" -> value = JBool(FALSE)
    [] key = "QueriesUsedInFormula" -> value = JNull
    [] key = "absentFor" -> value = GoInt(0)
    [] key = "alertOnAbsent" -> value = JBool(FALSE)
    [] key = "hidden" -> value = JBool(TRUE)
    [] key \in {"reduceTo", "spaceAggregation", "timeAggregation"} -> value = JStr("")
    [] OTHER -> FALSE

\* A rule table that takes any boolean under hidden for the default.
isDefaultFieldAnyHidden(key, value) ==
  CASE key = "groupBy" -> value.t = "slice" /\ Len(value.a) = 0
    [] key = "IsAnomaly" -> value = JBool(FALSE)
    [] key = "QueriesUsedInFormula" -> value = JNull
    [] key = "absentFor" -> value = GoInt(0)
    [] key = "alertOnAbsent" -> value = JBool(FALSE)
    [] key = "hidden" -> value.t = "bool"
    [] key \in {"reduceTo", "spaceAggregation", "timeAggregation"} -> value = JStr("")
    [] OTHER -> FALSE

\* isDefaultField: value == 0 compares an interface{} with the int constant 0,
\* so it holds of a Go int 0 only, never of the float64 0 that JSON decoding gives.
isDefaultField(key, value) ==
  CASE key = "groupBy" -> value.t = "slice" /\ Len(value.a) = 0
    [] key = "IsAnomaly" -> value = JBool(FALSE)
    [] key = "QueriesUsedInFormula" -> value = JNull
    [] key = "absentFor" -> value = GoInt(0)
    [] key = "alertOnAbsent" -> value = JBool(FALSE)
    [] key = "hidden" -> value = JBool(TRUE)
    [] key \in {"reduceTo", "spaceAggregation", "timeAggregation"} -> value = JStr("")
    [] OTHER -> FALSE

RECURSIVE removeDefaultFields(_)
\* A canonicalizer that takes the order of a sequence for irrelevant: it puts
\* the maps of a sequence after its other elements.
removeDefaultFieldsUnordered(data) ==
  CASE data.t = "map" ->
         LET keep == {k \in DOMAIN data.o : ~isDefaultField(k, data.o[k])}
         IN JObj([k \in keep |-> removeDefaultFields(data.o[k])])
    [] data.t = "slice" ->
         LET items == [i \in DOMAIN data.a |-> removeDefaultFields(data.a[i])]
             IsMapItem(v) == v.t = "map"
             IsOtherItem(v) == v.t # "map"
         IN JArr(SelectSeq(items, IsOtherItem) \o SelectSeq(items, IsMapItem))
    [] OTHER -> data

removeDefaultFields(data) ==
  CASE data.t = "map" ->
         LET keep == {k \in DOMAIN data.o : ~isDefaultField(k, data.o[k])}
         IN JObj([k \in keep |-> removeDefaultFields(data.o[k])])
    [] data.t = "slice" ->
         JArr([i \in DOMAIN data.a |-> removeDefaultFields(data.a[i])])
    [] OTHER -> data

\* normalizeJSON: parse, strip defaults, marshal; an error for a text that is
\* not JSON.
normalizeJSON(jsonStr) ==
  IF ~UnmarshalOk(jsonStr) THEN [ok |-> FALSE]
  ELSE [ok |-> TRUE, text |-> Marshal(removeDefaultFields(Unmarshal(jsonStr)))]

\* A comparator that strips the defaults of its first argument only.
areJSONsSemanticallyEqualOneSided(json1, json2) ==
  IF ~UnmarshalOk(json1) THEN FALSE
  ELSE IF ~UnmarshalOk(json2) THEN FALSE
  ELSE Marshal(removeDefaultFields(Unmarshal(json1))) = Marshal(Unmarshal(json2))

\* A comparator that takes two identical strings for equivalent before it
\* parses either.
areJSONsSemanticallyEqualSameString(json1, json2) ==
  IF json1 = json2 THEN TRUE
  ELSE IF ~UnmarshalOk(json1) THEN FALSE
  ELSE IF ~UnmarshalOk(json2) THEN FALSE
  ELSE Marshal(removeDefaultFields(Unmarshal(json1)))
         = Marshal(removeDefaultFields(Unmarshal(json2)))

\* areJSONsSemanticallyEqual: parse both, strip defaults, marshal, compare bytes.
areJSONsSemanticallyEqual(json1, json2) ==
  IF ~UnmarshalOk(json1) THEN FALSE
  ELSE IF ~UnmarshalOk(json2) THEN FALSE
  ELSE Marshal(removeDefaultFields(Unmarshal(json1)))
         = Marshal(removeDefaultFields(Unmarshal(json2)))

\* jsonSemanticEqualityModifier.PlanModifyString: the planned value.
PlanModifyString(stateValue, planValue) ==
  IF IsNull(stateValue) THEN planValue
  ELSE IF IsNull(planValue) THEN planValue
  ELSE IF areJSONsSemanticallyEqual(planValue, stateValue) THEN stateValue
  ELSE planValue

\* ---------------------------------------------------- canonicalizer (model package)
modelIsDefaultField(key, value) ==
  CASE key = "groupBy" -> value.t = "slice" /\ Len(value.a) = 0
    [] key = "IsAnomaly" -> value = JBool(FALSE)
    [] key = "QueriesUsedInFormula" -> value = JNull
    [] key = "absentFor" -> value = GoInt(0)
    [] key = "alertOnAbsent" -> value = JBool(FALSE)
    [] key = "hidden" -> value = JBool(TRUE)
    [] key \in {"reduceTo", "spaceAggregation", "timeAggregation"} -> value = JStr("")
    [] OTHER -> FALSE

RECURSIVE modelRemoveDefaultFields(_)
modelRemoveDefaultFields(data) ==
  CASE data.t = "map" ->
         LET keep == {k \in DOMAIN data.o : ~modelIsDefaultField(k, data.o[k])}
         IN JObj([k \in keep |-> modelRemoveDefaultFields(data.o[k])])
    [] data.t = "slice" ->
         JArr([i \in DOMAIN data.a |-> modelRemoveDefaultFields(data.a[i])])
    [] OTHER -> data

\* Alert.ConditionToTerraform: strip defaults from the decoded condition and
\* flatten it to a string (a nil condition is an empty map here).
ConditionToTerraform(condition) ==
  FlattenJsonToString(modelRemoveDefaultFields(JObj(condition)).o)

\* m[k] = v whatever m[k] holds.
SetAlways(m, k, v) == Put(m, k, v)

\* if m[k] == nil { m[k] = v }: a key that is absent or null gets the default.
SetIfNil(m, k, v) == IF Get(m, k) = JNull THEN Put(m, k, v) ELSE m

\* The defaults normalizeCondition adds to the builder query F1 only.
normalizeFormula(queryName, q) ==
  IF queryName = "F1"
  THEN SetIfNil(SetIfNil(SetIfNil(q, "reduceTo", JStr("")),
                         "spaceAggregation", JStr("")),
                "timeAggregation", JStr(""))
  ELSE q

\* The default normalizeCondition adds to the builder query A only.
normalizeHidden(queryName, q) ==
  IF queryName = "A" THEN SetIfNil(q, "hidden", JBool(TRUE)) ELSE q

\* The defaults normalizeCondition adds to one builder query.
normalizeQuery(queryName, query) ==
  IF ~IsMap(query) THEN query
  ELSE JObj(normalizeFormula(queryName,
              normalizeHidden(queryName,
                SetIfNil(SetIfNil(SetIfNil(query.o, "IsAnomaly", JBool(FALSE)),
                                  "QueriesUsedInFormula", JNull),
                         "groupBy", JArr(<< >>)))))

\* The defaults normalizeCondition adds to every builder query of the condition.
normalizeBuilderQueries(condition) ==
  LET cq == Get(condition, "compositeQuery")
  IN IF IsMap(cq) /\ IsMap(Get(cq.o, "builderQueries"))
     THEN Put(condition, "compositeQuery",
              JObj(Put(cq.o, "builderQueries",
                       JObj([n \in DOMAIN cq.o["builderQueries"].o |->
                               normalizeQuery(n, cq.o["builderQueries"].o[n])]))))
     ELSE condition

\* normalizeCondition: add the defaults the API adds.  The root absentFor is
\* stored as the Go int 0.
normalizeCondition(condition) ==
  SetIfNil(SetIfNil(normalizeBuilderQueries(condition), "absentFor", GoInt(0)),
           "alertOnAbsent", JBool(FALSE))

\* Alert.SetCondition: the payload condition, when the text parses.
SetConditionOk(tfCondition) == ExpandOk(tfCondition)

SetCondition(tfCondition) == normalizeCondition(ExpandJsonFromString(tfCondition))

\* ------------------------------------------------------------ framework values
\* A types.String scalar is a string; null and unknown are the two markers.
\* A types.Bool is "true", "false" or a marker.  A types.String holding JSON is
\* a text (above).  Label values, channel names and the severity are kept as
\* sequences of characters because the code quotes and trims them.
NullStr == "<null>"
UnknownStr == "<unknown>"
NullChars == << "<null>" >>
NullList == [null |-> TRUE, elems |-> << >>]
NullLabels == [null |-> TRUE, elems |-> EmptyMap]

ListValue(elems) == [null |-> FALSE, elems |-> elems]
MapValue(elems) == [null |-> FALSE, elems |-> elems]
BoolValue(b) == IF b THEN "true" ELSE "false"

\* ValueString / ValueBool: the zero value for null and unknown.
ValueString(s) == IF s \in {NullStr, UnknownStr} THEN "" ELSE s
ValueBool(b) == b = "true"
ValueChars(s) == IF s = NullChars THEN << >> ELSE s
ValueText(s) == IF IsNull(s) THEN EmptyText ELSE s

\* stringplanmodifier.UseStateForUnknown: an unknown planned value takes the
\* prior state's value when the state holds one.
UseStateForUnknown(stateValue, planValue) ==
  IF planValue = UnknownStr /\ stateValue # NullStr THEN stateValue ELSE planValue

\* basetypes.StringValue.String(): the value as a quoted Go string.
Quote(chars) ==
  LET RECURSIVE Esc(_)
      Esc(cs) == IF cs = << >> THEN << >>
                 ELSE (IF Head(cs) \in {"\"", "\\"} THEN << "\\", Head(cs) >>
                       ELSE << Head(cs) >>) \o Esc(Tail(cs))
  IN << "\"" >> \o Esc(chars) \o << "\"" >>

\* strings.Trim(s, "\""): drop every leading and trailing double quote.
TrimQuotes(chars) ==
  LET RECURSIVE DropLeft(_)
      DropLeft(cs) == IF cs # << >> /\ Head(cs) = "\"" THEN DropLeft(Tail(cs)) ELSE cs
      RECURSIVE DropRight(_)
      DropRight(cs) == IF cs # << >> /\ cs[Len(cs)] = "\""
                       THEN DropRight(SubSeq(cs, 1, Len(cs) - 1)) ELSE cs
  IN DropRight(DropLeft(chars))

\* --------------------------------------------------------------- alert model
\* AlertTerraformLabel = "managedBy:terraform", split at the colon.
AlertTerraformLabelKey == "managedBy"
AlertTerraformLabelValue == << "t", "e", "r", "r", "a", "f", "o", "r", "m" >>

\* Alert.SetLabels: the payload labels.
SetLabels(tfLabels, tfSeverity) ==
  LET l1 == [k \in DOMAIN tfLabels.elems |-> TrimQuotes(Quote(tfLabels.elems[k]))]
      l2 == Put(l1, AlertTerraformLabelKey, AlertTerraformLabelValue)
  IN IF ValueChars(tfSeverity) # << >> THEN Put(l2, "severity", ValueChars(tfSeverity))
     ELSE l2

\* Alert.LabelsToTerraform: the labels without severity and managedBy.
LabelsToTerraform(labels) ==
  MapValue([k \in DOMAIN labels \ {"severity", AlertTerraformLabelKey} |-> labels[k]])

\* Alert.SetPreferredChannels / Alert.PreferredChannelsToTerraform.
SetPreferredChannels(tfPreferredChannels) ==
  [i \in DOMAIN tfPreferredChannels.elems |->
     TrimQuotes(Quote(tfPreferredChannels.elems[i]))]

PreferredChannelsToTerraform(channels) == ListValue(channels)

\* Alert.SetSourceIfEmpty (utils.WithDefault): the default when empty.
AlertDefaultSource == "http://signoz/alerts"

SetSourceIfEmpty(source) == IF source = "" THEN AlertDefaultSource ELSE source

\* The remote keeps no state for the instance.
Absent == [exists |-> FALSE]
\* The instance has no persisted state.
NoState == [exists |-> FALSE]
\* A placeholder for a part of the last operation's record that it has not.
NoRec == [none |-> TRUE]

\* ------------------------------------------------------------ alert resource
\* The plan Terraform hands to Create: the configuration, every Computed
\* attribute unknown.
AlertCreatePlan(cfg) ==
  [Alert |-> cfg.Alert, AlertType |-> cfg.AlertType,
   BroadcastToAll |-> cfg.BroadcastToAll, Condition |-> cfg.Condition,
   Description |-> cfg.Description, Disabled |-> cfg.Disabled,
   EvalWindow |-> cfg.EvalWindow, Frequency |-> cfg.Frequency,
   Labels |-> cfg.Labels, PreferredChannels |-> cfg.PreferredChannels,
   RuleType |-> cfg.RuleType, Severity |-> cfg.Severity, Source |-> cfg.Source,
   Summary |-> cfg.Summary, Version |-> cfg.Version,
   ID |-> UnknownStr, State |-> UnknownStr, CreateAt |-> UnknownStr,
   CreateBy |-> UnknownStr, UpdateAt |-> UnknownStr, UpdateBy |-> UnknownStr]

\* The plan Terraform hands to Update: the configuration run through the
\* schema's plan modifiers against the prior state.  keep says whether the
\* Computed attributes reach the handler resolved from the state or unknown.
AlertUpdatePlan(cfg, st, keep) ==
  LET computed(f) == IF keep THEN UseStateForUnknown(st[f], UnknownStr) ELSE UnknownStr
  IN [AlertCreatePlan(cfg) EXCEPT
        !.Condition = PlanModifyString(st.Condition, cfg.Condition),
        !.Source = UseStateForUnknown(st.Source, cfg.Source),
        !.ID = computed("ID"), !.State = computed("State"),
        !.CreateAt = computed("CreateAt"), !.CreateBy = computed("CreateBy"),
        !.UpdateAt = computed("UpdateAt"), !.UpdateBy = computed("UpdateBy")]

\* Create, the request body built from the plan.  Disabled is not part of it.
AlertCreatePayload(plan) ==
  [ID |-> "", Alert |-> ValueString(plan.Alert),
   AlertType |-> ValueString(plan.AlertType),
   Description |-> ValueString(plan.Description),
   Summary |-> ValueString(plan.Summary),
   BroadcastToAll |-> ValueBool(plan.BroadcastToAll),
   Condition |-> SetCondition(ValueText(plan.Condition)),
   Disabled |-> FALSE,
   EvalWindow |-> ValueString(plan.EvalWindow),
   Frequency |-> ValueString(plan.Frequency),
   Labels |-> SetLabels(plan.Labels, plan.Severity),
   PreferredChannels |-> SetPreferredChannels(plan.PreferredChannels),
   RuleType |-> ValueString(plan.RuleType),
   Source |-> ValueString(plan.Source), State |-> "",
   Version |-> ValueString(plan.Version),
   CreateAt |-> "", CreateBy |-> "", UpdateAt |-> "", UpdateBy |-> ""]

\* Create, the state set from the plan and the response.
AlertCreateState(plan, alert) ==
  [plan EXCEPT !.ID = alert.ID, !.Disabled = BoolValue(alert.Disabled),
               !.Source = alert.Source, !.State = alert.State,
               !.CreateAt = alert.CreateAt, !.CreateBy = alert.CreateBy,
               !.UpdateAt = alert.UpdateAt, !.UpdateBy = alert.UpdateBy]

\* A Read that masks drift: the prior condition is kept when there is one.
AlertReadConditionMasked(st, alert) ==
  IF IsNull(st.Condition) THEN ConditionToTerraform(alert.Condition) ELSE st.Condition

\* Read, the condition of the refreshed state.
AlertReadCondition(st, alert) == ConditionToTerraform(alert.Condition)

\* A Read that refreshes neither the name, nor disabled, nor the version.
AlertReadStateStale(st, alert) ==
  [st EXCEPT !.AlertType = alert.AlertType,
             !.BroadcastToAll = BoolValue(alert.BroadcastToAll),
             !.Description = alert.Description,
             !.EvalWindow = alert.EvalWindow, !.Frequency = alert.Frequency,
             !.RuleType = alert.RuleType,
             !.Severity = IF "severity" \in DOMAIN alert.Labels
                          THEN alert.Labels["severity"] ELSE << >>,
             !.Source = alert.Source, !.State = alert.State,
             !.Summary = alert.Summary,
             !.CreateAt = alert.CreateAt, !.CreateBy = alert.CreateBy,
             !.UpdateAt = alert.UpdateAt, !.UpdateBy = alert.UpdateBy,
             !.Condition = AlertReadCondition(st, alert),
             !.Labels = LabelsToTerraform(alert.Labels),
             !.PreferredChannels = PreferredChannelsToTerraform(alert.PreferredChannels)]

\* Read, the state refreshed from the response.
AlertReadState(st, alert) ==
  [st EXCEPT !.Alert = alert.Alert, !.AlertType = alert.AlertType,
             !.BroadcastToAll = BoolValue(alert.BroadcastToAll),
             !.Description = alert.Description,
             !.Disabled = BoolValue(alert.Disabled),
             !.EvalWindow = alert.EvalWindow, !.Frequency = alert.Frequency,
             !.RuleType = alert.RuleType,
             !.Severity = IF "severity" \in DOMAIN alert.Labels
                          THEN alert.Labels["severity"] ELSE << >>,
             !.Source = alert.Source, !.State = alert.State,
             !.Summary = alert.Summary, !.Version = alert.Version,
             !.CreateAt = alert.CreateAt, !.CreateBy = alert.CreateBy,
             !.UpdateAt = alert.UpdateAt, !.UpdateBy = alert.UpdateBy,
             !.Condition = AlertReadCondition(st, alert),
             !.Labels = LabelsToTerraform(alert.Labels),
             !.PreferredChannels = PreferredChannelsToTerraform(alert.PreferredChannels)]

\* An Update that sends no condition when the planned one is the prior one.
AlertUpdatePayloadSkipping(plan, st) ==
  [AlertCreatePayload(plan) EXCEPT
     !.ID = ValueString(st.ID), !.Disabled = ValueBool(plan.Disabled),
     !.State = ValueString(st.State),
     !.Condition = IF plan.Condition = st.Condition THEN EmptyMap ELSE @,
     !.CreateAt = ValueString(st.CreateAt), !.CreateBy = ValueString(st.CreateBy),
     !.UpdateAt = ValueString(st.UpdateAt), !.UpdateBy = ValueString(st.UpdateBy)]

\* Update, the request body built from the plan and the prior state.
AlertUpdatePayload(plan, st) ==
  [AlertCreatePayload(plan) EXCEPT
     !.ID = ValueString(st.ID), !.Disabled = ValueBool(plan.Disabled),
     !.State = ValueString(st.State),
     !.CreateAt = ValueString(st.CreateAt), !.CreateBy = ValueString(st.CreateBy),
     !.UpdateAt = ValueString(st.UpdateAt), !.UpdateBy = ValueString(st.UpdateBy)]

\* An Update that always persists the prior condition.
AlertUpdateConditionPrior(plan, st) ==
  IF ~IsNull(st.Condition) THEN st.Condition ELSE plan.Condition

\* Update, the condition that is persisted.
AlertUpdateCondition(plan, st) ==
  IF ~IsNull(st.Condition)
  THEN IF areJSONsSemanticallyEqual(ValueText(plan.Condition), ValueText(st.Condition))
       THEN st.Condition ELSE plan.Condition
  ELSE plan.Condition

\* An Update that persists the plan's identifier and update timestamp.
AlertPreservePartly(plan, st) ==
  [plan EXCEPT !.CreateAt = st.CreateAt, !.CreateBy = st.CreateBy,
               !.UpdateBy = st.UpdateBy,
               !.Source = st.Source, !.State = st.State]

\* Update, the server-managed attributes preserved from the prior state.
AlertPreserve(plan, st) ==
  [plan EXCEPT !.ID = st.ID, !.CreateAt = st.CreateAt, !.CreateBy = st.CreateBy,
               !.UpdateAt = st.UpdateAt, !.UpdateBy = st.UpdateBy,
               !.Source = st.Source, !.State = st.State]

\* Update, the state that is set.
AlertUpdateState(plan, st) ==
  AlertPreserve([plan EXCEPT !.Condition = AlertUpdateCondition(plan, st)], st)

\* ImportState (ImportStatePassthroughID): a state holding the id alone.
AlertImportState(id) ==
  [Alert |-> NullStr, AlertType |-> NullStr, BroadcastToAll |-> NullStr,
   Condition |-> NullString, Description |-> NullStr, Disabled |-> NullStr,
   EvalWindow |-> NullStr, Frequency |-> NullStr, Labels |-> NullLabels,
   PreferredChannels |-> NullList, RuleType |-> NullStr, Severity |-> NullChars,
   Source |-> NullStr, Summary |-> NullStr, Version |-> NullStr,
   ID |-> id, State |-> NullStr, CreateAt |-> NullStr, CreateBy |-> NullStr,
   UpdateAt |-> NullStr, UpdateBy |-> NullStr]

\* ---------------------------------------------------------- dashboard model
\* json.Unmarshal into []map[string]interface{}: a JSON array of objects.
IsObjectArray(text) ==
  /\ text.valid
  /\ \/ text.doc.d = "null"
     \/ /\ text.doc.d = "array"
        /\ \A i \in DOMAIN text.doc.a : text.doc.a[i].d \in {"object", "null"}

\* json.Unmarshal into map[string]interface{}: a JSON object.
IsObject(text) == text.valid /\ text.doc.d \in {"object", "null"}

DecodeSlice(text) == IF text.doc.d = "null" THEN << >> ELSE Decode(text.doc).a

DecodeMap(text) == IF text.doc.d = "null" THEN EmptyMap ELSE Decode(text.doc).o

\* Dashboard.SetLayout
SetLayoutOk(tfLayout) == IsObjectArray(ValueText(tfLayout))

SetLayout(tfLayout) == DecodeSlice(ValueText(tfLayout))

\* Dashboard.SetPanelMap: the empty map for the empty string.
SetPanelMapOk(tfPanelMap) ==
  ValueText(tfPanelMap) = EmptyText \/ IsObject(ValueText(tfPanelMap))

SetPanelMap(tfPanelMap) ==
  IF ValueText(tfPanelMap) = EmptyText THEN EmptyMap
  ELSE DecodeMap(ValueText(tfPanelMap))

\* Dashboard.SetVariables: the empty map for the empty string.
SetVariablesOk(tfVariables) ==
  ValueText(tfVariables) = EmptyText \/ IsObject(ValueText(tfVariables))

SetVariables(tfVariables) ==
  IF ValueText(tfVariables) = EmptyText THEN EmptyMap
  ELSE DecodeMap(ValueText(tfVariables))

\* Dashboard.SetWidgets: the empty slice for the empty string.
SetWidgetsOk(tfWidgets) ==
  ValueText(tfWidgets) = EmptyText \/ IsObjectArray(ValueText(tfWidgets))

SetWidgets(tfWidgets) ==
  IF ValueText(tfWidgets) = EmptyText THEN << >>
  ELSE DecodeSlice(ValueText(tfWidgets))

\* Dashboard.SetTags / Dashboard.TagsToTerraform
SetTags(tfTags) == tfTags.elems

TagsToTerraform(tags) == ListValue(tags)

\* -------------------------------------------------------- dashboard resource
\* The plan Terraform hands to Create.
DashboardCreatePlan(cfg) ==
  [CollapsableRowsMigrated |-> cfg.CollapsableRowsMigrated,
   Description |-> cfg.Description, Layout |-> cfg.Layout, Name |-> cfg.Name,
   PanelMap |-> cfg.PanelMap, Source |-> cfg.Source, Tags |-> cfg.Tags,
   Title |-> cfg.Title, UploadedGrafana |-> cfg.UploadedGrafana,
   Variables |-> cfg.Variables, Version |-> cfg.Version, Widgets |-> cfg.Widgets,
   ID |-> UnknownStr, CreatedAt |-> UnknownStr, CreatedBy |-> UnknownStr,
   UpdatedAt |-> UnknownStr, UpdatedBy |-> UnknownStr]

\* The plan Terraform hands to Update (UseStateForUnknown on source and on the
\* Computed attributes; the structured attributes are configured, so known).
DashboardUpdatePlan(cfg, st, keep) ==
  LET computed(f) == IF keep THEN UseStateForUnknown(st[f], UnknownStr) ELSE UnknownStr
  IN [DashboardCreatePlan(cfg) EXCEPT
        !.Source = UseStateForUnknown(st.Source, cfg.Source),
        !.ID = computed("ID"),
        !.CreatedAt = computed("CreatedAt"), !.CreatedBy = computed("CreatedBy"),
        !.UpdatedAt = computed("UpdatedAt"), !.UpdatedBy = computed("UpdatedBy")]

\* Create and Update, whether every structured attribute of the plan parses.
DashboardPayloadOk(plan) ==
  /\ SetLayoutOk(plan.Layout)
  /\ SetPanelMapOk(plan.PanelMap)
  /\ SetVariablesOk(plan.Variables)
  /\ SetWidgetsOk(plan.Widgets)

\* Create and Update, the request body built from the plan.
DashboardPayload(plan) ==
  [CollapsableRowsMigrated |-> ValueBool(plan.CollapsableRowsMigrated),
   Description |-> ValueString(plan.Description),
   Layout |-> SetLayout(plan.Layout),
   Name |-> ValueString(plan.Name),
   PanelMap |-> SetPanelMap(plan.PanelMap),
   Source |-> "",
   Tags |-> SetTags(plan.Tags),
   Title |-> ValueString(plan.Title),
   UploadedGrafana |-> ValueBool(plan.UploadedGrafana),
   Variables |-> SetVariables(plan.Variables),
   Version |-> ValueString(plan.Version),
   Widgets |-> SetWidgets(plan.Widgets)]

\* Create, the state set from the plan and the response.
DashboardCreateState(plan, dashboard) ==
  [plan EXCEPT !.ID = dashboard.ID, !.Source = dashboard.Data.Source,
               !.CreatedAt = dashboard.CreatedAt, !.CreatedBy = dashboard.CreatedBy,
               !.UpdatedAt = dashboard.UpdatedAt, !.UpdatedBy = dashboard.UpdatedBy,
               !.Version = dashboard.Data.Version]

\* A Read that refreshes the structured attributes from the response.
DashboardReadStructuredObserved(st, dashboard) ==
  [Widgets |-> Marshal(JArr(dashboard.Data.Widgets)),
   Layout |-> Marshal(JArr(dashboard.Data.Layout)),
   PanelMap |-> Marshal(JObj(dashboard.Data.PanelMap)),
   Variables |-> Marshal(JObj(dashboard.Data.Variables))]

\* Read, the structured attributes of the refreshed state: the prior state's.
DashboardReadStructured(st, dashboard) ==
  [Widgets |-> st.Widgets, Layout |-> st.Layout, PanelMap |-> st.PanelMap,
   Variables |-> st.Variables]

\* Read, the state refreshed from the response.
DashboardReadState(st, dashboard) ==
  LET kept == DashboardReadStructured(st, dashboard)
  IN [st EXCEPT
        !.CollapsableRowsMigrated = BoolValue(dashboard.Data.CollapsableRowsMigrated),
        !.CreatedAt = dashboard.CreatedAt, !.CreatedBy = dashboard.CreatedBy,
        !.Description = dashboard.Data.Description, !.ID = dashboard.ID,
        !.Name = dashboard.Data.Name, !.Source = dashboard.Data.Source,
        !.Title = dashboard.Data.Title,
        !.UpdatedAt = dashboard.UpdatedAt, !.UpdatedBy = dashboard.UpdatedBy,
        !.UploadedGrafana = BoolValue(dashboard.Data.UploadedGrafana),
        !.Version = dashboard.Data.Version,
        !.Widgets = kept.Widgets, !.Layout = kept.Layout,
        !.PanelMap = kept.PanelMap, !.Variables = kept.Variables,
        !.Tags = TagsToTerraform(dashboard.Data.Tags)]

\* An Update that persists the prior text of an attribute the plan's is
\* equivalent to.
DashboardUpdateStructuredMerged(plan, st) ==
  [f \in {"Widgets", "Layout", "PanelMap", "Variables"} |->
     IF areJSONsSemanticallyEqual(ValueText(plan[f]), ValueText(st[f]))
     THEN st[f] ELSE plan[f]]

\* Update, the structured attributes that are persisted: the plan's.
DashboardUpdateStructured(plan, st) ==
  [Widgets |-> plan.Widgets, Layout |-> plan.Layout, PanelMap |-> plan.PanelMap,
   Variables |-> plan.Variables]

\* An Update that persists the plan's identifier.
DashboardPreservePartly(plan, st) ==
  [plan EXCEPT !.CreatedAt = st.CreatedAt, !.CreatedBy = st.CreatedBy,
               !.UpdatedAt = st.UpdatedAt, !.UpdatedBy = st.UpdatedBy,
               !.Source = st.Source]

\* Update, the server-managed attributes preserved from the prior state.
DashboardPreserve(plan, st) ==
  [plan EXCEPT !.ID = st.ID, !.CreatedAt = st.CreatedAt, !.CreatedBy = st.CreatedBy,
               !.UpdatedAt = st.UpdatedAt, !.UpdatedBy = st.UpdatedBy,
               !.Source = st.Source]

\* Update, the state that is set.
DashboardUpdateState(plan, st) ==
  LET kept == DashboardUpdateStructured(plan, st)
  IN DashboardPreserve([plan EXCEPT !.Widgets = kept.Widgets, !.Layout = kept.Layout,
                                    !.PanelMap = kept.PanelMap,
                                    !.Variables = kept.Variables], st)

\* ImportState (ImportStatePassthroughID): a state holding the id alone.
DashboardImportState(id) ==
  [CollapsableRowsMigrated |-> NullStr, Description |-> NullStr,
   Layout |-> NullString, Name |-> NullStr, PanelMap |-> NullString,
   Source |-> NullStr, Tags |-> NullList, Title |-> NullStr,
   UploadedGrafana |-> NullStr, Variables |-> NullString, Version |-> NullStr,
   Widgets |-> NullString, ID |-> id, CreatedAt |-> NullStr,
   CreatedBy |-> NullStr, UpdatedAt |-> NullStr, UpdatedBy |-> NullStr]

\* ------------------------------------------------------------- the remote API
\* What a value is after it crossed the wire as JSON and was decoded again.
Wire(v) == Decode(Encode(v))

\* The identifier the remote assigns on creation, and the one of an object
\* that exists before Terraform manages it.
NewID == "id-new"
ExternalID == "id-ext"

\* client.CreateAlert: the remote stores the body and fills the server fields.
RemoteCreateAlert(payload) ==
  [payload EXCEPT !.ID = NewID, !.Condition = Wire(JObj(@)).o,
                  !.Source = SetSourceIfEmpty(@), !.State = "inactive",
                  !.CreateAt = "t0", !.CreateBy = "creator",
                  !.UpdateAt = "t0", !.UpdateBy = "creator"]

\* client.UpdateAlert: the remote stores the body, keeps the fields it owns.
RemoteUpdateAlert(rem, payload) ==
  [payload EXCEPT !.ID = rem.ID, !.Condition = Wire(JObj(@)).o,
                  !.Source = SetSourceIfEmpty(@), !.State = rem.State,
                  !.CreateAt = rem.CreateAt, !.CreateBy = rem.CreateBy,
                  !.UpdateAt = "t1", !.UpdateBy = "updater"]

\* client.GetAlert / GetDashboard / Update / Delete find the object by its id.
RemoteHas(rem, id) == rem # Absent /\ rem.ID = id

DashboardDefaultSource == "http://signoz/dashboard"

WireDashboard(payload) ==
  [payload EXCEPT !.Layout = Wire(JArr(@)).a, !.PanelMap = Wire(JObj(@)).o,
                  !.Variables = Wire(JObj(@)).o, !.Widgets = Wire(JArr(@)).a,
                  !.Source = DashboardDefaultSource]

\* client.CreateDashboard
RemoteCreateDashboard(payload) ==
  [ID |-> NewID, CreatedAt |-> "t0", CreatedBy |-> "creator",
   UpdatedAt |-> "t0", UpdatedBy |-> "creator", Data |-> WireDashboard(payload)]

\* client.UpdateDashboard
RemoteUpdateDashboard(rem, payload) ==
  [rem EXCEPT !.UpdatedAt = "t1", !.UpdatedBy = "updater",
              !.Data = WireDashboard(payload)]

\* --------------------------------------------------------------------- inputs
\* Alert condition texts.
CondA1 == Compact(DObj(<< <<"a", DNum(1)>> >>))
CondA1Spaced == Spaced(DObj(<< <<"a", DNum(1)>> >>))
CondA2 == Compact(DObj(<< <<"a", DNum(2)>> >>))
CondA1Defaults ==
  Compact(DObj(<< <<"absentFor", DNum(0)>>, <<"alertOnAbsent", DBool(FALSE)>>,
                  <<"a", DNum(1)>> >>))
CondQueries ==
  Compact(DObj(<< <<"compositeQuery",
                    DObj(<< <<"builderQueries",
                              DObj(<< <<"F1", DObj(<< <<"x", DNum(1)>> >>)>>,
                                      <<"A", DObj(<< <<"x", DNum(1)>> >>)>> >>)>> >>)>> >>))

ConditionTexts ==
  {CondA1, CondA1Spaced, CondA2, CondA1Defaults, CondQueries, BadText}

SeverityWarning == << "w", "a", "r", "n" >>

\* The user's alert configuration: variant v of the scalar attributes (1 plain,
\* 2 renamed and disabled, 3 with a source of the user's), with condition text c.
AlertConfig(v, c) ==
  [Alert |-> IF v = 2 THEN "cpu-high-renamed" ELSE "cpu-high",
   AlertType |-> "METRIC_BASED_ALERT", BroadcastToAll |-> "false",
   Condition |-> c, Description |-> "desc",
   Disabled |-> IF v = 2 THEN "true" ELSE "false",
   EvalWindow |-> "5m0s", Frequency |-> "1m0s",
   Labels |-> MapValue([team |-> << "o", "p", "s" >>]),
   PreferredChannels |-> ListValue(<< << "s", "l" >> >>),
   RuleType |-> "threshold_rule", Severity |-> SeverityWarning,
   Source |-> IF v = 3 THEN "http://elsewhere/alerts" ELSE UnknownStr,
   Summary |-> "sum", Version |-> "v4"]

AlertVariants == 1 .. 3

\* Every condition text with the plain scalars, every scalar variant with the
\* plain condition.
AlertConfigs ==
  {AlertConfig(1, c) : c \in ConditionTexts}
    \cup {AlertConfig(v, CondA1) : v \in AlertVariants}

\* An alert that exists on the remote before Terraform manages it.
ExternalAlert ==
  [ID |-> ExternalID, Alert |-> "external", AlertType |-> "LOGS_BASED_ALERT",
   Description |-> "made by hand", Summary |-> "s", BroadcastToAll |-> TRUE,
   Condition |-> Wire(JObj(SetCondition(CondQueries))).o, Disabled |-> TRUE,
   EvalWindow |-> "10m0s", Frequency |-> "2m0s",
   Labels |-> [severity |-> << "i", "n", "f", "o" >>, env |-> << "p" >>],
   PreferredChannels |-> << << "p", "d" >> >>, RuleType |-> "promql_rule",
   Source |-> "http://ui/alerts", State |-> "firing", Version |-> "v5",
   CreateAt |-> "t-ext", CreateBy |-> "someone", UpdateAt |-> "t-ext",
   UpdateBy |-> "someone"]

\* What the remote may do to an alert behind Terraform's back.
AlertDrifts == {"condition", "scalars", "status"}

DriftAlert(rem, d) ==
  CASE d = "condition" -> [rem EXCEPT !.Condition = Put(@, "a", JNum(9))]
    [] d = "scalars" -> [rem EXCEPT !.Alert = "renamed-on-server",
                                    !.EvalWindow = "15m0s", !.Disabled = ~@,
                                    !.Version = "v9"]
    [] d = "status" -> [rem EXCEPT !.State = "pending", !.UpdateAt = "t9",
                                   !.UpdateBy = "server"]

\* Dashboard texts.
Item(id) == DObj(<< <<"i", DStr(id)>>, <<"x", DNum(0)>> >>)
ItemReordered(id) == DObj(<< <<"x", DNum(0)>>, <<"i", DStr(id)>> >>)
VarDoc(id) == DObj(<< <<"v", DObj(<< <<"id", DStr(id)>>, <<"a", DNum(1)>> >>)>> >>)
VarDocReordered(id) == DObj(<< <<"v", DObj(<< <<"a", DNum(1)>>, <<"id", DStr(id)>> >>)>> >>)

\* Structured attributes of a dashboard configuration, by variant:
\* 1 a dashboard; 2 the same reformatted (key order, whitespace); 3 another
\* dashboard; 4 no panel map and no widgets; 5..8 one attribute not JSON.
DashboardJSONBase(j) ==
  CASE j = 1 -> [Layout |-> Compact(DArr(<< Item("w1") >>)),
                 Variables |-> Compact(VarDoc("1")),
                 Widgets |-> Compact(DArr(<< Item("w1") >>)),
                 PanelMap |-> Compact(DObj(<< <<"w", Item("w1")>> >>))]
    [] j = 2 -> [Layout |-> Spaced(DArr(<< ItemReordered("w1") >>)),
                 Variables |-> Spaced(VarDocReordered("1")),
                 Widgets |-> Spaced(DArr(<< ItemReordered("w1") >>)),
                 PanelMap |-> Spaced(DObj(<< <<"w", ItemReordered("w1")>> >>))]
    [] j = 3 -> [Layout |-> Compact(DArr(<< Item("w2") >>)),
                 Variables |-> Compact(VarDoc("2")),
                 Widgets |-> Compact(DArr(<< Item("w2") >>)),
                 PanelMap |-> Compact(DObj(<< <<"w", Item("w2")>> >>))]
    [] j = 4 -> [Layout |-> Compact(DArr(<< Item("w1") >>)),
                 Variables |-> Compact(VarDoc("1")),
                 Widgets |-> EmptyText, PanelMap |-> NullString]

DashboardJSON(j) ==
  CASE j <= 4 -> DashboardJSONBase(j)
    [] j = 5 -> [DashboardJSONBase(1) EXCEPT !.Layout = BadText]
    [] j = 6 -> [DashboardJSONBase(1) EXCEPT !.Variables = BadText]
    [] j = 7 -> [DashboardJSONBase(1) EXCEPT !.Widgets = BadText]
    [] j = 8 -> [DashboardJSONBase(1) EXCEPT !.PanelMap = BadText]

DashboardConfig(v, j) ==
  [CollapsableRowsMigrated |-> "true", Description |-> "desc",
   Layout |-> DashboardJSON(j).Layout,
   Name |-> IF v = 2 THEN "board-renamed" ELSE "board",
   PanelMap |-> DashboardJSON(j).PanelMap, Source |-> UnknownStr,
   Tags |-> ListValue(<< "prod" >>), Title |-> "Board",
   UploadedGrafana |-> "false", Variables |-> DashboardJSON(j).Variables,
   Version |-> IF v = 2 THEN "v5" ELSE "v4",
   Widgets |-> DashboardJSON(j).Widgets]

DashboardVariants == 1 .. 2

DashboardJSONVariants == 1 .. 8

DashboardConfigs ==
  {DashboardConfig(1, j) : j \in DashboardJSONVariants}
    \cup {DashboardConfig(v, 1) : v \in DashboardVariants}

\* A dashboard that exists on the remote before Terraform manages it.
ExternalDashboard ==
  [ID |-> ExternalID, CreatedAt |-> "t-ext", CreatedBy |-> "someone",
   UpdatedAt |-> "t-ext", UpdatedBy |-> "someone",
   Data |-> [CollapsableRowsMigrated |-> FALSE, Description |-> "made by hand",
             Layout |-> Decode(DArr(<< Item("w9") >>)).a, Name |-> "external",
             PanelMap |-> Decode(DObj(<< <<"w", Item("w9")>> >>)).o,
             Source |-> "http://ui/dashboard", Tags |-> << "ext" >>,
             Title |-> "External", UploadedGrafana |-> TRUE,
             Variables |-> Decode(VarDoc("9")).o, Version |-> "v3",
             Widgets |-> Decode(DArr(<< Item("w9") >>)).a]]

\* What the remote may do to a dashboard behind Terraform's back.
DashboardDrifts == {"structured", "scalars", "status"}

DriftDashboard(rem, d) ==
  CASE d = "structured" ->
         [rem EXCEPT !.Data.Layout = Decode(DArr(<< Item("w7") >>)).a,
                     !.Data.Widgets = Decode(DArr(<< Item("w7") >>)).a,
                     !.Data.Variables = Decode(VarDoc("7")).o,
                     !.Data.PanelMap = Decode(DObj(<< <<"w", Item("w7")>> >>)).o]
    [] d = "scalars" ->
         [rem EXCEPT !.Data.Name = "renamed-on-server", !.Data.Title = "Renamed",
                     !.Data.Description = "edited", !.Data.Version = "v9",
                     !.Data.CollapsableRowsMigrated = ~@,
                     !.Data.UploadedGrafana = ~@, !.Data.Tags = << "edited" >>]
    [] d = "status" -> [rem EXCEPT !.UpdatedAt = "t9", !.UpdatedBy = "server"]

VARIABLES kind, config, state, remote, last, env

vars == <<kind, config, state, remote, last, env>>

\* ---------------------------------------------------------------------- bounds
\* How many times in one run the world changes around the provider: the user
\* edits the configuration, or the remote changes the object on its own.
MaxChanges == 1

\* ------------------------------------------------------------------- the state
\* kind    which resource type the instance is
\* config  the user's desired configuration
\* state   Terraform's persisted state of the instance, or NoState
\* remote  the object the remote holds, or Absent
\* last    the last handler run: the configuration it ran under, its plan and
\*         prior state, its request body, the response, the outcome, and the
\*         number of remote calls it issued; op is "none" when no handler
\*         has run since the configuration or the remote last changed
\* env     the changes used up, and the configuration that was last applied
\*         with nothing but the provider having touched the remote since
Op(op, ok, calls, plan, prev, payload, observed) ==
  [op |-> op, ok |-> ok, calls |-> calls, desired |-> config, plan |-> plan,
   prev |-> prev, payload |-> payload, observed |-> observed]

Configs(k) == IF k = "alert" THEN AlertConfigs ELSE DashboardConfigs

External(k) == IF k = "alert" THEN ExternalAlert ELSE ExternalDashboard

\* The state holds more than an imported id: a Create or a Read has filled it.
Populated(st) == st # NoState /\ st.Version # NullStr

Init ==
  /\ kind \in {"alert", "dashboard"}
  /\ config \in Configs(kind)
  /\ state = NoState
  /\ remote \in {Absent, External(kind)}
  /\ last = Op("none", TRUE, 0, NoRec, NoRec, NoRec, NoRec)
  /\ env = [changes |-> 0, applied |-> NoRec]

\* alertResource.Create
AlertCreate ==
  /\ kind = "alert"
  /\ state = NoState
  /\ LET plan == AlertCreatePlan(config)
     IN IF ~SetConditionOk(ValueText(plan.Condition))
        THEN /\ last' = Op("Create", FALSE, 0, plan, state, NoRec, NoRec)
             /\ UNCHANGED <<state, remote, env>>
        ELSE \E fail \in BOOLEAN :
               LET payload == AlertCreatePayload(plan)
                   alert == RemoteCreateAlert(payload)
               IN IF fail
                  THEN /\ last' = Op("Create", FALSE, 1, plan, state, payload, NoRec)
                       /\ UNCHANGED <<state, remote, env>>
                  ELSE /\ remote' = alert
                       /\ state' = AlertCreateState(plan, alert)
                       /\ last' = Op("Create", TRUE, 1, plan, state, payload, alert)
                       /\ env' = [env EXCEPT !.applied = config]
  /\ UNCHANGED <<kind, config>>

\* A Read that takes a failed lookup for a deleted object and drops the state.
AlertReadDropping ==
  /\ kind = "alert"
  /\ state # NoState
  /\ \E fail \in BOOLEAN :
       IF fail \/ ~RemoteHas(remote, ValueString(state.ID))
       THEN /\ last' = Op("Read", FALSE, 1, NoRec, state, NoRec, NoRec)
            /\ state' = NoState
       ELSE /\ state' = AlertReadState(state, remote)
            /\ last' = Op("Read", TRUE, 1, NoRec, state, NoRec, remote)
  /\ UNCHANGED <<kind, config, remote, env>>

\* alertResource.Read
AlertRead ==
  /\ kind = "alert"
  /\ state # NoState
  /\ \E fail \in BOOLEAN :
       IF fail \/ ~RemoteHas(remote, ValueString(state.ID))
       THEN /\ last' = Op("Read", FALSE, 1, NoRec, state, NoRec, NoRec)
            /\ state' = state
       ELSE /\ state' = AlertReadState(state, remote)
            /\ last' = Op("Read", TRUE, 1, NoRec, state, NoRec, remote)
  /\ UNCHANGED <<kind, config, remote, env>>

\* An Update that saves the plan before it parses the condition.
AlertUpdateSavingPlan ==
  /\ kind = "alert"
  /\ Populated(state)
  /\ \E keep \in BOOLEAN :
       LET plan == AlertUpdatePlan(config, state, keep)
       IN /\ plan # state
          /\ IF ~SetConditionOk(ValueText(plan.Condition))
             THEN /\ last' = Op("Update", FALSE, 0, plan, state, NoRec, NoRec)
                  /\ state' = AlertPreserve(plan, state)
                  /\ UNCHANGED <<remote, env>>
             ELSE \E fail \in BOOLEAN :
                    LET payload == AlertUpdatePayload(plan, state)
                    IN IF fail \/ ~RemoteHas(remote, ValueString(state.ID))
                       THEN /\ last' = Op("Update", FALSE, 1, plan, state, payload, NoRec)
                            /\ UNCHANGED <<state, remote, env>>
                       ELSE /\ remote' = RemoteUpdateAlert(remote, payload)
                            /\ state' = AlertUpdateState(plan, state)
                            /\ last' = Op("Update", TRUE, 1, plan, state, payload, NoRec)
                            /\ env' = [env EXCEPT !.applied = config]
  /\ UNCHANGED <<kind, config>>

\* alertResource.Update, run when the plan differs from the state.
AlertUpdate ==
  /\ kind = "alert"
  /\ Populated(state)
  /\ \E keep \in BOOLEAN :
       LET plan == AlertUpdatePlan(config, state, keep)
       IN /\ plan # state
          /\ IF ~SetConditionOk(ValueText(plan.Condition))
             THEN /\ last' = Op("Update", FALSE, 0, plan, state, NoRec, NoRec)
                  /\ UNCHANGED <<state, remote, env>>
             ELSE \E fail \in BOOLEAN :
                    LET payload == AlertUpdatePayload(plan, state)
                    IN IF fail \/ ~RemoteHas(remote, ValueString(state.ID))
                       THEN /\ last' = Op("Update", FALSE, 1, plan, state, payload, NoRec)
                            /\ UNCHANGED <<state, remote, env>>
                       ELSE /\ remote' = RemoteUpdateAlert(remote, payload)
                            /\ state' = AlertUpdateState(plan, state)
                            /\ last' = Op("Update", TRUE, 1, plan, state, payload, NoRec)
                            /\ env' = [env EXCEPT !.applied = config]
  /\ UNCHANGED <<kind, config>>

\* alertResource.Delete: the framework drops the state when no error is set.
AlertDelete ==
  /\ kind = "alert"
  /\ Populated(state)
  /\ \E fail \in BOOLEAN :
       IF fail \/ ~RemoteHas(remote, ValueString(state.ID))
       THEN /\ last' = Op("Delete", FALSE, 1, NoRec, state, NoRec, NoRec)
            /\ UNCHANGED <<state, remote, env>>
       ELSE /\ remote' = Absent
            /\ state' = NoState
            /\ last' = Op("Delete", TRUE, 1, NoRec, state, NoRec, NoRec)
            /\ env' = [env EXCEPT !.applied = NoRec]
  /\ UNCHANGED <<kind, config>>

\* alertResource.ImportState
AlertImport ==
  /\ kind = "alert"
  /\ state = NoState
  /\ state' = AlertImportState(ExternalID)
  /\ last' = Op("ImportState", TRUE, 0, NoRec, state, NoRec, NoRec)
  /\ env' = [env EXCEPT !.applied = NoRec]
  /\ UNCHANGED <<kind, config, remote>>

\* dashboardResource.Create
DashboardCreate ==
  /\ kind = "dashboard"
  /\ state = NoState
  /\ LET plan == DashboardCreatePlan(config)
     IN IF ~DashboardPayloadOk(plan)
        THEN /\ last' = Op("Create", FALSE, 0, plan, state, NoRec, NoRec)
             /\ UNCHANGED <<state, remote, env>>
        ELSE \E fail \in BOOLEAN :
               LET payload == DashboardPayload(plan)
                   dashboard == RemoteCreateDashboard(payload)
               IN IF fail
                  THEN /\ last' = Op("Create", FALSE, 1, plan, state, payload, NoRec)
                       /\ UNCHANGED <<state, remote, env>>
                  ELSE /\ remote' = dashboard
                       /\ state' = DashboardCreateState(plan, dashboard)
                       /\ last' = Op("Create", TRUE, 1, plan, state, payload, dashboard)
                       /\ env' = [env EXCEPT !.applied = config]
  /\ UNCHANGED <<kind, config>>

\* dashboardResource.Read
DashboardRead ==
  /\ kind = "dashboard"
  /\ state # NoState
  /\ \E fail \in BOOLEAN :
       IF fail \/ ~RemoteHas(remote, ValueString(state.ID))
       THEN /\ last' = Op("Read", FALSE, 1, NoRec, state, NoRec, NoRec)
            /\ state' = state
       ELSE /\ state' = DashboardReadState(state, remote)
            /\ last' = Op("Read", TRUE, 1, NoRec, state, NoRec, remote)
  /\ UNCHANGED <<kind, config, remote, env>>

\* dashboardResource.Update, run when the plan differs from the state.
DashboardUpdate ==
  /\ kind = "dashboard"
  /\ Populated(state)
  /\ \E keep \in BOOLEAN :
       LET plan == DashboardUpdatePlan(config, state, keep)
       IN /\ plan # state
          /\ IF ~DashboardPayloadOk(plan)
             THEN /\ last' = Op("Update", FALSE, 0, plan, state, NoRec, NoRec)
                  /\ UNCHANGED <<state, remote, env>>
             ELSE \E fail \in BOOLEAN :
                    LET payload == DashboardPayload(plan)
                    IN IF fail \/ ~RemoteHas(remote, ValueString(state.ID))
                       THEN /\ last' = Op("Update", FALSE, 1, plan, state, payload, NoRec)
                            /\ UNCHANGED <<state, remote, env>>
                       ELSE /\ remote' = RemoteUpdateDashboard(remote, payload)
                            /\ state' = DashboardUpdateState(plan, state)
                            /\ last' = Op("Update", TRUE, 1, plan, state, payload, NoRec)
                            /\ env' = [env EXCEPT !.applied = config]
  /\ UNCHANGED <<kind, config>>

\* A Delete that drops the state whether or not the remote delete succeeded.
DashboardDeleteDropping ==
  /\ kind = "dashboard"
  /\ Populated(state)
  /\ \E fail \in BOOLEAN :
       IF fail \/ ~RemoteHas(remote, ValueString(state.ID))
       THEN /\ last' = Op("Delete", FALSE, 1, NoRec, state, NoRec, NoRec)
            /\ state' = NoState
            /\ UNCHANGED <<remote, env>>
       ELSE /\ remote' = Absent
            /\ state' = NoState
            /\ last' = Op("Delete", TRUE, 1, NoRec, state, NoRec, NoRec)
            /\ env' = [env EXCEPT !.applied = NoRec]
  /\ UNCHANGED <<kind, config>>

\* dashboardResource.Delete
DashboardDelete ==
  /\ kind = "dashboard"
  /\ Populated(state)
  /\ \E fail \in BOOLEAN :
       IF fail \/ ~RemoteHas(remote, ValueString(state.ID))
       THEN /\ last' = Op("Delete", FALSE, 1, NoRec, state, NoRec, NoRec)
            /\ UNCHANGED <<state, remote, env>>
       ELSE /\ remote' = Absent
            /\ state' = NoState
            /\ last' = Op("Delete", TRUE, 1, NoRec, state, NoRec, NoRec)
            /\ env' = [env EXCEPT !.applied = NoRec]
  /\ UNCHANGED <<kind, config>>

\* dashboardResource.ImportState
DashboardImport ==
  /\ kind = "dashboard"
  /\ state = NoState
  /\ state' = DashboardImportState(ExternalID)
  /\ last' = Op("ImportState", TRUE, 0, NoRec, state, NoRec, NoRec)
  /\ env' = [env EXCEPT !.applied = NoRec]
  /\ UNCHANGED <<kind, config, remote>>

\* The user edits the configuration of the managed instance (the configuration
\* an unmanaged instance starts with is any of them already).
ChangeConfig ==
  /\ env.changes < MaxChanges
  /\ state # NoState
  /\ \E c \in Configs(kind) \ {config} : config' = c
  /\ env' = [env EXCEPT !.changes = @ + 1]
  /\ last' = [Op("none", TRUE, 0, NoRec, NoRec, NoRec, NoRec) EXCEPT !.desired = config']
  /\ UNCHANGED <<kind, state, remote>>

\* The remote changes the managed object without Terraform taking part.
RemoteDrift ==
  /\ env.changes < MaxChanges
  /\ state # NoState
  /\ remote # Absent
  /\ IF kind = "alert"
     THEN \E d \in AlertDrifts : remote' = DriftAlert(remote, d)
     ELSE \E d \in DashboardDrifts : remote' = DriftDashboard(remote, d)
  /\ env' = [env EXCEPT !.changes = @ + 1, !.applied = NoRec]
  /\ last' = Op("none", TRUE, 0, NoRec, NoRec, NoRec, NoRec)
  /\ UNCHANGED <<kind, config, state>>

Next ==
  \/ AlertCreate
  \/ AlertRead
  \/ AlertUpdate
  \/ AlertDelete
  \/ AlertImport
  \/ DashboardCreate
  \/ DashboardRead
  \/ DashboardUpdate
  \/ DashboardDelete
  \/ DashboardImport
  \/ ChangeConfig
  \/ RemoteDrift

Spec == Init /\ [][Next]_vars

\* ------------------------------------------------- the canonicalizer on its own
\* A second specification applies the canonicalizer and the comparator to
\* condition texts.  It keeps the variables: kind is "condition", config holds
\* the texts a, b and c, last the function applied and what it returned; state,
\* remote and env stay as an unmanaged instance has them.
\*
\* The member pairs a condition text may hold next to "x": 1.
Pool ==
  << [key |-> "groupBy", doc |-> DArr(<< >>)],
     [key |-> "groupBy", doc |-> DArr(<< DStr("id") >>)],
     [key |-> "IsAnomaly", doc |-> DBool(FALSE)],
     [key |-> "QueriesUsedInFormula", doc |-> DNull],
     [key |-> "absentFor", doc |-> DNum(0)],
     [key |-> "absentFor", doc |-> DNum(5)],
     [key |-> "alertOnAbsent", doc |-> DBool(FALSE)],
     [key |-> "alertOnAbsent", doc |-> DBool(TRUE)],
     [key |-> "hidden", doc |-> DBool(TRUE)],
     [key |-> "hidden", doc |-> DBool(FALSE)],
     [key |-> "reduceTo", doc |-> DStr("")],
     [key |-> "timeAggregation", doc |-> DStr("")],
     [key |-> "title", doc |-> DStr("")],
     [key |-> "b", doc |-> DNum(2)],
     [key |-> "groupBy", doc |-> DObj(<< <<"hidden", DBool(TRUE)>> >>)],
     [key |-> "v", doc |-> DArr(<< DObj(<< <<"b", DNum(2)>>, <<"hidden", DBool(TRUE)>> >>),
                                   DStr("id") >>)],
     [key |-> "v", doc |-> DArr(<< DStr("id"),
                                   DObj(<< <<"b", DNum(2)>>, <<"hidden", DBool(TRUE)>> >>) >>)],
     [key |-> "IsAnomaly", doc |-> DNull] >>

\* Where the object that holds the pairs sits: the root of the condition, the
\* builder query of that name, or ("prom") the query named A under
\* compositeQuery.promQueries.
Positions == {"root", "A", "B", "F1", "prom"}

\* The pairs of two-pair texts.
PoolPairs == { <<5, 7>>, <<7, 5>>, <<1, 14>>, <<14, 1>> }

\* A second string that is not JSON: a text cut short.
CutText == [valid |-> FALSE, raw |-> "{\"x\":"]

\* The description of a text: the position, the pairs in written order,
\* whether "x" is written first or last, and whether the string is JSON at all
\* (a string that is not is BadText, or CutText when "x" comes first).
TextDescs(pos) ==
  {[pos |-> pos, pairs |-> << >>, xfirst |-> TRUE, json |-> TRUE]}
    \cup {[pos |-> pos, pairs |-> <<i>>, xfirst |-> xf, json |-> TRUE] :
            i \in DOMAIN Pool, xf \in BOOLEAN}
    \cup {[pos |-> pos, pairs |-> ps, xfirst |-> FALSE, json |-> TRUE] :
            ps \in PoolPairs}
    \cup {[pos |-> pos, pairs |-> << >>, xfirst |-> xf, json |-> FALSE] :
            xf \in BOOLEAN}

\* The texts the third argument of a transitivity check is drawn from.
ThirdDescs(pos) ==
  {[pos |-> pos, pairs |-> ps, xfirst |-> TRUE, json |-> TRUE] :
     ps \in { << >>, <<1>>, <<9>> }}

InnerDoc(d) ==
  LET x == << <<"x", DNum(1)>> >>
      ps == [i \in DOMAIN d.pairs |-> <<Pool[d.pairs[i]].key, Pool[d.pairs[i]].doc>>]
  IN DObj(IF d.xfirst THEN x \o ps ELSE ps \o x)

\* The condition text a description stands for.
TextOf(d) ==
  IF ~d.json THEN (IF d.xfirst THEN CutText ELSE BadText)
  ELSE IF d.pos = "root" THEN Compact(InnerDoc(d))
  ELSE IF d.pos = "prom"
  THEN Compact(DObj(<< <<"compositeQuery",
                         DObj(<< <<"promQueries",
                                   DObj(<< <<"A", InnerDoc(d)>> >>)>> >>)>> >>))
  ELSE Compact(DObj(<< <<"compositeQuery",
                         DObj(<< <<"builderQueries",
                                   DObj(<< <<d.pos, InnerDoc(d)>> >>)>> >>)>> >>))

CanonInit ==
  /\ kind = "condition"
  /\ \E pos \in Positions :
       config \in [a : TextDescs(pos), b : TextDescs(pos), c : ThirdDescs(pos)]
  /\ state = NoState
  /\ remote = Absent
  /\ last = [op |-> "none"]
  /\ env = [changes |-> 0, applied |-> NoRec]

\* The functions of one argument read a only; they are applied in the states
\* whose b repeats a and whose c is the plain text.
OneText == config.b = config.a /\ config.c.pairs = << >>

\* normalizeJSON applied to a, and again to its own result when it has one.
Canonicalize ==
  /\ kind = "condition"
  /\ last.op = "none"
  /\ OneText
  /\ LET once == normalizeJSON(TextOf(config.a))
     IN last' = IF ~once.ok THEN [op |-> "normalizeJSON", once |-> once]
                ELSE [op |-> "normalizeJSON", once |-> once,
                      tree |-> removeDefaultFields(Unmarshal(TextOf(config.a))),
                      twice |-> normalizeJSON(once.text),
                      treeAgain |-> removeDefaultFields(Unmarshal(once.text))]
  /\ UNCHANGED <<kind, config, state, remote, env>>

\* areJSONsSemanticallyEqual applied to the texts pairwise.
Compare ==
  /\ kind = "condition"
  /\ last.op = "none"
  /\ LET a == TextOf(config.a)
         b == TextOf(config.b)
         c == TextOf(config.c)
     IN last' = [op |-> "areJSONsSemanticallyEqual",
                 aa |-> areJSONsSemanticallyEqual(a, a),
                 ab |-> areJSONsSemanticallyEqual(a, b),
                 ba |-> areJSONsSemanticallyEqual(b, a),
                 bc |-> areJSONsSemanticallyEqual(b, c),
                 ac |-> areJSONsSemanticallyEqual(a, c)]
  /\ UNCHANGED <<kind, config, state, remote, env>>

\* ---- the canonicalizer on the heap
\* Go maps and slices are references.  To follow what a call allocates and
\* what it writes, a tree is laid out on a heap: a container per address, its
\* members either scalars or references to other containers.  The container
\* json.Unmarshal allocates for the value at a path has that path for address.
Ref(at) == [t |-> "ref", at |-> at]

\* The path step into element i of a slice.
IndexKey == << "0", "1", "2" >>

Cell(v, path) == IF v.t \in {"map", "slice"} THEN Ref(path) ELSE v

\* The containers json.Unmarshal allocates for a value, as <<address, container>>.
RECURSIVE Store(_, _)
Store(v, path) ==
  CASE v.t = "map" ->
         {<<path, JObj([k \in DOMAIN v.o |-> Cell(v.o[k], Append(path, k))])>>}
           \cup UNION {Store(v.o[k], Append(path, k)) : k \in DOMAIN v.o}
    [] v.t = "slice" ->
         {<<path, JArr([i \in DOMAIN v.a |-> Cell(v.a[i], Append(path, IndexKey[i]))])>>}
           \cup UNION {Store(v.a[i], Append(path, IndexKey[i])) : i \in DOMAIN v.a}
    [] OTHER -> {}

\* The heap after the writes: a written address holds what was written last.
Written(heap, writes) ==
  [at \in DOMAIN heap \cup {w[1] : w \in writes} |->
     IF \E w \in writes : w[1] = at
     THEN (CHOOSE w \in writes : w[1] = at)[2]
     ELSE heap[at]]

HeapOf(v) == Written(<< >>, Store(v, << >>))

\* The interface{} value a cell holds: the container behind a reference.
View(heap, cell) == IF cell.t = "ref" THEN heap[cell.at] ELSE cell

\* The address of the container make() returns in the call on the container
\* at an address.
Fresh(at) == << "result" >> \o at

\* removeDefaultFields (resource package) on the heap: the containers it
\* writes and the value it returns.
RECURSIVE removeDefaultFieldsOn(_, _)
\* A canonicalizer that deletes the default fields from the map it is given
\* and returns that map.
removeDefaultFieldsOnInPlace(heap, cell) ==
  LET v == View(heap, cell)
  IN CASE v.t = "map" ->
            LET keep == {k \in DOMAIN v.o : ~isDefaultField(k, View(heap, v.o[k]))}
                sub == [k \in keep |-> removeDefaultFieldsOn(heap, v.o[k])]
            IN [writes |-> {<<cell.at, JObj([k \in keep |-> sub[k].result])>>}
                             \cup UNION {sub[k].writes : k \in keep},
                result |-> cell]
       [] v.t = "slice" ->
            LET sub == [i \in DOMAIN v.a |-> removeDefaultFieldsOn(heap, v.a[i])]
            IN [writes |-> {<<Fresh(cell.at), JArr([i \in DOMAIN v.a |-> sub[i].result])>>}
                             \cup UNION {sub[i].writes : i \in DOMAIN v.a},
                result |-> Ref(Fresh(cell.at))]
       [] OTHER -> [writes |-> {}, result |-> cell]

removeDefaultFieldsOn(heap, cell) ==
  LET v == View(heap, cell)
  IN CASE v.t = "map" ->
            LET keep == {k \in DOMAIN v.o : ~isDefaultField(k, View(heap, v.o[k]))}
                sub == [k \in keep |-> removeDefaultFieldsOn(heap, v.o[k])]
            IN [writes |-> {<<Fresh(cell.at), JObj([k \in keep |-> sub[k].result])>>}
                             \cup UNION {sub[k].writes : k \in keep},
                result |-> Ref(Fresh(cell.at))]
       [] v.t = "slice" ->
            LET sub == [i \in DOMAIN v.a |-> removeDefaultFieldsOn(heap, v.a[i])]
            IN [writes |-> {<<Fresh(cell.at), JArr([i \in DOMAIN v.a |-> sub[i].result])>>}
                             \cup UNION {sub[i].writes : i \in DOMAIN v.a},
                result |-> Ref(Fresh(cell.at))]
       [] OTHER -> [writes |-> {}, result |-> cell]

\* removeDefaultFields (model package) on the heap.
RECURSIVE modelRemoveDefaultFieldsOn(_, _)
modelRemoveDefaultFieldsOn(heap, cell) ==
  LET v == View(heap, cell)
  IN CASE v.t = "map" ->
            LET keep == {k \in DOMAIN v.o : ~modelIsDefaultField(k, View(heap, v.o[k]))}
                sub == [k \in keep |-> modelRemoveDefaultFieldsOn(heap, v.o[k])]
            IN [writes |-> {<<Fresh(cell.at), JObj([k \in keep |-> sub[k].result])>>}
                             \cup UNION {sub[k].writes : k \in keep},
                result |-> Ref(Fresh(cell.at))]
       [] v.t = "slice" ->
            LET sub == [i \in DOMAIN v.a |-> modelRemoveDefaultFieldsOn(heap, v.a[i])]
            IN [writes |-> {<<Fresh(cell.at), JArr([i \in DOMAIN v.a |-> sub[i].result])>>}
                             \cup UNION {sub[i].writes : i \in DOMAIN v.a},
                result |-> Ref(Fresh(cell.at))]
       [] OTHER -> [writes |-> {}, result |-> cell]

\* The addresses reachable from a cell, and the tree it stands for.
RECURSIVE Reach(_, _)
Reach(heap, cell) ==
  IF cell.t # "ref" THEN {}
  ELSE LET v == heap[cell.at]
       IN {cell.at}
            \cup (IF v.t = "map" THEN UNION {Reach(heap, v.o[k]) : k \in DOMAIN v.o}
                  ELSE UNION {Reach(heap, v.a[i]) : i \in DOMAIN v.a})

RECURSIVE Value(_, _)
Value(heap, cell) ==
  IF cell.t # "ref" THEN cell
  ELSE LET v == heap[cell.at]
       IN IF v.t = "map" THEN JObj([k \in DOMAIN v.o |-> Value(heap, v.o[k])])
          ELSE JArr([i \in DOMAIN v.a |-> Value(heap, v.a[i])])

\* removeDefaultFields of either package applied to the tree parsed from a:
\* the heap before the call, the heap after it, and the value returned.
Strip ==
  /\ kind = "condition"
  /\ last.op = "none"
  /\ OneText
  /\ config.a.json
  /\ LET tree == Unmarshal(TextOf(config.a))
         heap == HeapOf(tree)
         data == Cell(tree, << >>)
         res == removeDefaultFieldsOn(heap, data)
         mres == modelRemoveDefaultFieldsOn(heap, data)
     IN last' = [op |-> "removeDefaultFields", tree |-> tree,
                 before |-> heap, data |-> data,
                 after |-> Written(heap, res.writes), result |-> res.result,
                 modelAfter |-> Written(heap, mres.writes),
                 modelResult |-> mres.result]
  /\ UNCHANGED <<kind, config, state, remote, env>>

\* Alert.SetCondition on a, the payload condition serialized into the request
\* body, the same bytes parsed from the response, and Alert.ConditionToTerraform
\* on the parsed condition; the comparator on the text read back and a.
RoundTrip ==
  /\ kind = "condition"
  /\ last.op = "none"
  /\ OneText
  /\ SetConditionOk(TextOf(config.a))
  /\ LET payload == SetCondition(TextOf(config.a))
     IN last' = [op |-> "SetCondition",
                 given |-> ExpandJsonFromString(TextOf(config.a)),
                 payload |-> payload,
                 back |-> ConditionToTerraform(Unmarshal(Marshal(JObj(payload))).o),
                 same |-> areJSONsSemanticallyEqual(
                            ConditionToTerraform(Unmarshal(Marshal(JObj(payload))).o),
                            TextOf(config.a))]
  /\ UNCHANGED <<kind, config, state, remote, env>>

CanonNext == Canonicalize \/ Compare \/ Strip \/ RoundTrip

CanonSpec == CanonInit /\ [][CanonNext]_vars

\* ------------------------------------------------- the widgets of a dashboard
\* A third specification applies functions of the model package on their own:
\* the content-hash revision of the dashboard model (SetWidgets,
\* WidgetsToTerraform) to widgets texts, the revision with a custom decoder
\* (Dashboard.UnmarshalJSON) to response bodies, and Alert.SetLabels with
\* Alert.LabelsToTerraform to label maps.  kind is "widgets", "response" or
\* "labels"; config holds the inputs, last what was returned.
\*
\* sha256.Sum256 and hex.EncodeToString: a digest stands for the bytes it was
\* computed from, so two digests are equal exactly when the bytes are; the
\* hex string is a Go string that is not JSON.
Sum256(bytes) == [sum |-> bytes]
EncodeToString(hash) == [t |-> "string", hex |-> hash]

\* Dashboard.SetWidgets (content-hash revision): d.Widgets after the call.
SetWidgetsHashed(tfWidgets) ==
  IF ValueText(tfWidgets) = EmptyText THEN JStr("")
  ELSE EncodeToString(Sum256(ValueText(tfWidgets)))

\* Dashboard.WidgetsToTerraform (content-hash revision) on d.Widgets.
WidgetsToTerraformHashed(widgets) ==
  IF widgets = JNull THEN JStr("")
  ELSE IF widgets.t = "string" THEN widgets
  ELSE EncodeToString(Sum256(Marshal(widgets)))

\* Dashboard.UnmarshalJSON on the receiver d: whether it returns an error, and
\* the receiver afterwards.  json.Unmarshal rejects a body that is not JSON
\* before it stores anything; otherwise it stores the fields of the body into
\* d through the embedded alias, except widgets, which the decoder converts.
\* The content of a JSON string that holds widgets is itself a text.
UnmarshalJSON(d, data) ==
  IF ~data.valid \/ data.doc.d # "object" THEN [err |-> TRUE, d |-> d]
  ELSE LET body == Decode(data.doc).o
           filled == IF Get(body, "title").t = "string"
                     THEN [d EXCEPT !.Title = body["title"].s] ELSE d
           v == Get(body, "widgets")
       IN CASE v = JNull -> [err |-> FALSE, d |-> filled]
            [] v.t = "string" ->
                 IF v.s = EmptyText
                 THEN [err |-> FALSE, d |-> [filled EXCEPT !.Widgets = << >>]]
                 ELSE IF IsObjectArray(v.s)
                 THEN [err |-> FALSE, d |-> [filled EXCEPT !.Widgets = DecodeSlice(v.s)]]
                 ELSE [err |-> TRUE, d |-> filled]
            [] v.t = "slice" ->
                 IF \A i \in DOMAIN v.a : v.a[i].t = "map"
                 THEN [err |-> FALSE, d |-> [filled EXCEPT !.Widgets = v.a]]
                 ELSE [err |-> TRUE, d |-> filled]
            [] OTHER -> [err |-> TRUE, d |-> filled]

\* Widgets and the texts a configuration may hold for them.
Widget == << <<"id", DStr("w")>>, <<"title", DStr("t")>> >>
WidgetReordered == << <<"title", DStr("t")>>, <<"id", DStr("w")>> >>
WidgetRenamed == << <<"id", DStr("w")>>, <<"title", DStr("u")>> >>

WidgetsTexts ==
  {Text(ws, DArr(<< DObj(w) >>)) :
     ws \in BOOLEAN, w \in {Widget, WidgetReordered, WidgetRenamed}}
    \cup {EmptyText}

\* The dashboards UnmarshalJSON may be called on: the zero value, and one that
\* already holds a title and widgets.
Receivers ==
  { [Title |-> "", Widgets |-> << >>],
    [Title |-> "old", Widgets |-> << >>],
    [Title |-> "old", Widgets |-> << Decode(DObj(Widget)) >>] }

\* The widgets member of a response body; none stands for a body without it.
WidgetsMembers ==
  { << >>,
    << <<"widgets", DNull>> >>,
    << <<"widgets", DArr(<< DObj(Widget) >>)>> >>,
    << <<"widgets", DArr(<< DObj(Widget), DStr("w") >>)>> >>,
    << <<"widgets", DArr(<< DNull >>)>> >>,
    << <<"widgets", DStr(EmptyText)>> >>,
    << <<"widgets", DStr(Compact(DArr(<< DObj(WidgetRenamed) >>)))>> >>,
    << <<"widgets", DStr(Compact(DArr(<< DNum(1) >>)))>> >>,
    << <<"widgets", DStr(Compact(DObj(Widget)))>> >>,
    << <<"widgets", DStr(BadText)>> >>,
    << <<"widgets", DNum(1)>> >>,
    << <<"widgets", DObj(Widget)>> >> }

ResponseBodies ==
  {Compact(DObj(t \o w)) :
     t \in { << >>, << <<"title", DStr("new")>> >> }, w \in WidgetsMembers}
    \cup {BadText}

\* Label values: a plain one, one with a double quote inside, one that is
\* a word in double quotes.
LabelValues ==
  { << "o", "p", "s" >>, << "a", "\"", "b" >>, << "\"", "q", "\"" >> }

LabelKeys == {"team", "severity", AlertTerraformLabelKey}

\* The label maps of a configuration, and its severity (none, or a word).
LabelMaps ==
  UNION {[ks -> LabelValues] : ks \in SUBSET LabelKeys}

Severities == {NullChars, SeverityWarning, << "i", "n", "f", "o" >>}

WidgetsInit ==
  /\ \/ kind = "widgets" /\ config \in [a : WidgetsTexts, b : WidgetsTexts]
     \/ kind = "response" /\ config \in [d : Receivers, data : ResponseBodies]
     \/ kind = "labels" /\ config \in [labels : LabelMaps, severity : Severities]
  /\ state = NoState
  /\ remote = Absent
  /\ last = [op |-> "none"]
  /\ env = [changes |-> 0, applied |-> NoRec]

\* SetWidgets on a and on b, and on a once more.
Submit ==
  /\ kind = "widgets"
  /\ last.op = "none"
  /\ last' = [op |-> "SetWidgets",
              a |-> SetWidgetsHashed(config.a),
              b |-> SetWidgetsHashed(config.b),
              again |-> SetWidgetsHashed(config.a)]
  /\ UNCHANGED <<kind, config, state, remote, env>>

\* SetWidgets on a, then WidgetsToTerraform on what a read decodes: the
\* widgets the text a holds when the remote returns that value (observed), or
\* the string SetWidgets stored when the remote returns the request body's
\* widgets member as it was sent (echoed).
Observe ==
  /\ kind = "widgets"
  /\ last.op = "none"
  /\ config.a.valid
  /\ last' = [op |-> "WidgetsToTerraform",
              submitted |-> SetWidgetsHashed(config.a),
              observed |-> WidgetsToTerraformHashed(Unmarshal(config.a)),
              echoed |-> WidgetsToTerraformHashed(SetWidgetsHashed(config.a))]
  /\ UNCHANGED <<kind, config, state, remote, env>>

\* Dashboard.UnmarshalJSON on the receiver d with the body data.
DecodeResponse ==
  /\ kind = "response"
  /\ last.op = "none"
  /\ LET res == UnmarshalJSON(config.d, config.data)
     IN last' = [op |-> "UnmarshalJSON", err |-> res.err, d |-> res.d]
  /\ UNCHANGED <<kind, config, state, remote, env>>

\* Alert.SetLabels on the label map and the severity, then
\* Alert.LabelsToTerraform on the labels it built.
Label ==
  /\ kind = "labels"
  /\ last.op = "none"
  /\ last' = [op |-> "SetLabels",
              payload |-> SetLabels(MapValue(config.labels), config.severity),
              back |-> LabelsToTerraform(SetLabels(MapValue(config.labels),
                                                   config.severity))]
  /\ UNCHANGED <<kind, config, state, remote, env>>

WidgetsNext == Submit \/ Observe \/ DecodeResponse \/ Label

WidgetsSpec == WidgetsInit /\ [][WidgetsNext]_vars

\* ---------------------------------------------------------------------- claims
AlertOp(op) == kind = "alert" /\ last.op = op
DashboardOp(op) == kind = "dashboard" /\ last.op = op

\* The structured attributes of a dashboard.
DashboardStructured == {"Layout", "Variables", "Widgets", "PanelMap"}

\* The comparator on two types.String values.
Equivalent(a, b) == areJSONsSemanticallyEqual(ValueText(a), ValueText(b))

\* The state holds an imported id and nothing else.
ImportedOnly(st) == st # NoState /\ ~Populated(st)

\* The request body's condition holds every root member of the text (the
\* builder queries aside, which normalizeCondition fills in).
CarriesCondition(payload, text) ==
  /\ text.valid
  /\ \A k \in DOMAIN Unmarshal(text).o \ {"compositeQuery"} :
       k \in DOMAIN payload.Condition /\ payload.Condition[k] = Unmarshal(text).o[k]

\* C1 (as claimed): once a Create or Update has been applied and the remote
\* echoes what it was sent, a Read followed by planning with the unchanged
\* configuration plans the persisted condition, so nothing more is written.
C1_StableConvergence ==
  (AlertOp("Read") /\ last.ok /\ env.applied = config)
    => AlertUpdatePlan(config, state, TRUE).Condition = state.Condition

\* C2 (as claimed): an Update whose desired structured value is equivalent to
\* the previous persisted one issues no call to the remote.
C2_NoCallWhenEquivalent ==
  /\ (AlertOp("Update") /\ Equivalent(last.desired.Condition, last.prev.Condition))
       => last.calls = 0
  /\ (DashboardOp("Update")
        /\ \A f \in DashboardStructured : Equivalent(last.desired[f], last.prev[f]))
       => last.calls = 0

\* C2 (amended): an Update whose desired structured value is equivalent to the
\* previous persisted one, and that succeeds, has issued exactly one update
\* call, and its request body carries the structured value built from the plan.
C2_EquivalentUpdateStillSends ==
  /\ (AlertOp("Update") /\ last.ok
        /\ Equivalent(last.desired.Condition, last.prev.Condition))
       => /\ last.calls = 1
          /\ CarriesCondition(last.payload, last.desired.Condition)
  /\ (DashboardOp("Update") /\ last.ok
        /\ \A f \in DashboardStructured : Equivalent(last.desired[f], last.prev[f]))
       => /\ last.calls = 1
          /\ last.payload.Layout = Unmarshal(last.desired.Layout).a
          /\ last.payload.Widgets = Unmarshal(last.desired.Widgets).a
          /\ last.payload.Variables = Unmarshal(last.desired.Variables).o
          /\ last.payload.PanelMap = Unmarshal(last.desired.PanelMap).o

\* C2 witness: a successful alert Update under a desired condition equivalent
\* to the previous one, whose body was sent and stored by the remote.
C2_Witness ==
  /\ AlertOp("Update") /\ last.ok
  /\ Equivalent(last.desired.Condition, last.prev.Condition)
  /\ last.calls = 1
  /\ remote.Condition = Wire(JObj(last.payload.Condition)).o

\* C3: after a successful dashboard Read the persisted layout, variables,
\* widgets and panel_map are the previous state's, whatever the remote returned.
C3_DashboardReadMasksDrift ==
  (DashboardOp("Read") /\ last.ok)
    => \A f \in DashboardStructured : state[f] = last.prev[f]

\* C3 witness: a successful Read of a populated state whose remote layout is
\* not the one the persisted text describes.
C3_Witness ==
  /\ DashboardOp("Read") /\ last.ok
  /\ ~IsNull(last.prev.Layout)
  /\ last.observed.Data.Layout # SetLayout(last.prev.Layout)
  /\ state.Layout = last.prev.Layout

C5_FirstReadPopulates ==
  /\ (AlertOp("Read") /\ last.ok /\ ImportedOnly(last.prev))
       => /\ ~IsNull(state.Condition)
          /\ state.Condition = ConditionToTerraform(last.observed.Condition)
  /\ (DashboardOp("Read") /\ last.ok /\ ImportedOnly(last.prev))
       => \A f \in DashboardStructured : ~IsNull(state[f])

\* C6: with a known previous condition, the planned condition and the
\* condition a successful Update persists are the previous text when the
\* desired text is equivalent to it and the desired text otherwise, and a
\* desired text that is not equivalent is carried by the request body.
C6_ConditionMergeRule ==
  (AlertOp("Update") /\ ~IsNull(last.prev.Condition))
    => LET merged == IF Equivalent(last.desired.Condition, last.prev.Condition)
                     THEN last.prev.Condition ELSE last.desired.Condition
       IN /\ last.plan.Condition = merged
          /\ last.ok => state.Condition = merged
          /\ (last.ok /\ merged = last.desired.Condition)
               => CarriesCondition(last.payload, last.desired.Condition)

\* C6 witness: a successful Update under a genuinely changed condition, which
\* is persisted and sent.
C6_Witness ==
  /\ AlertOp("Update") /\ last.ok
  /\ ~IsNull(last.prev.Condition)
  /\ ~Equivalent(last.desired.Condition, last.prev.Condition)
  /\ last.desired.Condition = CondA2
  /\ state.Condition = CondA2
  /\ last.payload.Condition["a"] = JNum(2)

\* C7 (as claimed): with desired {"absentFor":0,"alertOnAbsent":false,"a":1}
\* and previous {"a":1} the comparator reports equivalence and a successful
\* Update persists the previous condition.
C7_DefaultsAreEquivalent ==
  (AlertOp("Update") /\ last.ok /\ last.desired.Condition = CondA1Defaults
     /\ last.prev.Condition = CondA1)
    => /\ Equivalent(last.desired.Condition, last.prev.Condition)
       /\ state.Condition = last.prev.Condition

\* C8 (as claimed): a successful dashboard Update persists the previous text
\* of a structured attribute whose desired text is equivalent to it.
C8_DashboardUpdateMerges ==
  (DashboardOp("Update") /\ last.ok)
    => \A f \in DashboardStructured :
         Equivalent(last.desired[f], last.prev[f]) => state[f] = last.prev[f]

\* C8 (amended): a successful dashboard Update persists the desired text of
\* layout, variables, widgets and panel_map, also when it is equivalent to the
\* previous text.
C8_DashboardUpdatePersistsDesired ==
  (DashboardOp("Update") /\ last.ok)
    => \A f \in DashboardStructured : state[f] = last.desired[f]

\* C8 witness: a successful Update whose desired layout is equivalent to the
\* previous one but another text; the desired text is persisted.
C8_Witness ==
  /\ DashboardOp("Update") /\ last.ok
  /\ Equivalent(last.desired.Layout, last.prev.Layout)
  /\ last.desired.Layout # last.prev.Layout
  /\ state.Layout = last.desired.Layout

\* The attributes the user declares (source aside, which the provider fills).
AlertDeclared ==
  {"Alert", "AlertType", "BroadcastToAll", "Condition", "Description", "Disabled",
   "EvalWindow", "Frequency", "Labels", "PreferredChannels", "RuleType",
   "Severity", "Summary", "Version"}

DashboardDeclared ==
  {"CollapsableRowsMigrated", "Description", "Layout", "Name", "PanelMap", "Tags",
   "Title", "UploadedGrafana", "Variables", "Version", "Widgets"}

\* C9 (as claimed): after a successful Create every user-declared attribute of
\* the persisted state is the desired configuration's.
C9_CreatePersistsDesired ==
  /\ (AlertOp("Create") /\ last.ok)
       => \A f \in AlertDeclared : state[f] = last.desired[f]
  /\ (DashboardOp("Create") /\ last.ok)
       => \A f \in DashboardDeclared : state[f] = last.desired[f]

\* C10: after a successful Update the identifier, the timestamps, the creator
\* and updater and the lifecycle status of the persisted state are the
\* previous state's, whatever the plan holds for them.
C10_UpdateKeepsServerManaged ==
  /\ (AlertOp("Update") /\ last.ok)
       => \A f \in {"ID", "CreateAt", "CreateBy", "UpdateAt", "UpdateBy", "State"} :
            state[f] = last.prev[f]
  /\ (DashboardOp("Update") /\ last.ok)
       => \A f \in {"ID", "CreatedAt", "CreatedBy", "UpdatedAt", "UpdatedBy"} :
            state[f] = last.prev[f]

\* C10 witness: a successful Update whose plan held other values for them.
C10_Witness ==
  /\ AlertOp("Update") /\ last.ok
  /\ last.plan.UpdateAt # last.prev.UpdateAt
  /\ last.plan.ID # last.prev.ID
  /\ state.UpdateAt = last.prev.UpdateAt
  /\ state.ID = last.prev.ID

\* A Read, Update, Create or Delete handler ran last.
LastOp(ops) == last.op \in ops

\* A structured attribute of the plan is not JSON of the shape its setter
\* decodes (the empty string stands for the empty value in SetPanelMap,
\* SetVariables and SetWidgets, and is no failure there).
FailsToParse(plan) ==
  IF kind = "alert" THEN ~ValueText(plan.Condition).valid
  ELSE \/ ~ValueText(plan.Layout).valid
       \/ \E f \in {"PanelMap", "Variables", "Widgets"} :
            ~ValueText(plan[f]).valid /\ ValueText(plan[f]) # EmptyText

\* C11: after a successful Read every plain scalar and computed attribute of
\* the persisted state is the one of the observed response, whatever the
\* previous persisted value was.
C11_ReadTakesObservedScalars ==
  /\ (AlertOp("Read") /\ last.ok)
       => /\ \A f \in {"Alert", "AlertType", "Description", "EvalWindow", "Frequency",
                       "RuleType", "Source", "State", "Summary", "Version",
                       "CreateAt", "CreateBy", "UpdateAt", "UpdateBy"} :
               state[f] = last.observed[f]
          /\ (state.Disabled = "true") <=> last.observed.Disabled
          /\ (state.BroadcastToAll = "true") <=> last.observed.BroadcastToAll
          /\ state.Severity = last.observed.Labels["severity"]
  /\ (DashboardOp("Read") /\ last.ok)
       => /\ \A f \in {"ID", "CreatedAt", "CreatedBy", "UpdatedAt", "UpdatedBy"} :
               state[f] = last.observed[f]
          /\ \A f \in {"Name", "Title", "Description", "Version", "Source"} :
               state[f] = last.observed.Data[f]
          /\ \A f \in {"CollapsableRowsMigrated", "UploadedGrafana"} :
               (state[f] = "true") <=> last.observed.Data[f]

\* C11 witness: a successful Read that replaced the persisted name, version
\* and disabled flag by other values of the response.
C11_Witness ==
  /\ AlertOp("Read") /\ last.ok
  /\ Populated(last.prev)
  /\ last.prev.Alert # last.observed.Alert
  /\ last.prev.Version # last.observed.Version
  /\ state.Alert = last.observed.Alert
  /\ state.Version = last.observed.Version
  /\ state.Disabled # last.prev.Disabled

\* C12: a Create or Update whose plan holds a structured attribute that fails
\* to parse reports an error, issues no remote call and leaves the persisted
\* state as it was.
C12_ParseFailureIsFatal ==
  (LastOp({"Create", "Update"}) /\ FailsToParse(last.plan))
    => ~last.ok /\ last.calls = 0 /\ last.payload = NoRec /\ state = last.prev

\* C12 witness: an Update of a populated state under a condition that is not
\* JSON, which failed without a call.
C12_Witness ==
  /\ AlertOp("Update")
  /\ last.plan.Condition = BadText
  /\ ~last.ok /\ last.calls = 0
  /\ Populated(state) /\ state = last.prev

\* C13: a Create, Read, Update or Delete whose remote call failed reports an
\* error, has issued exactly one remote call and leaves the persisted state
\* as it was.
C13_RemoteFailureKeepsState ==
  /\ (LastOp({"Create", "Update"}) /\ ~last.ok /\ ~FailsToParse(last.plan))
       => last.calls = 1 /\ state = last.prev
  /\ (LastOp({"Read", "Delete"}) /\ ~last.ok)
       => last.calls = 1 /\ state = last.prev

\* C13 witness: a failed Read of a populated state, which is retained.
C13_Witness ==
  /\ AlertOp("Read") /\ ~last.ok /\ last.calls = 1
  /\ Populated(state) /\ state = last.prev

\* C14: after a successful Delete the instance has no persisted state; a
\* Delete whose remote call failed reports an error and retains the state.
C14_DeleteProducesNoState ==
  LastOp({"Delete"})
    => IF last.ok THEN state = NoState /\ last.prev # NoState
       ELSE state = last.prev /\ state # NoState

\* C14 witness: a successful Delete of a populated state.
C14_Witness ==
  /\ DashboardOp("Delete") /\ last.ok
  /\ Populated(last.prev)
  /\ state = NoState /\ remote = Absent

\* C15: a successful Read or Update of an instance that has a state leaves the
\* identifier of the persisted state as it was, so it stays the one the
\* create response assigned.
C15_IdentifierIsImmutable ==
  [][(state # NoState /\ last'.op \in {"Read", "Update"} /\ last'.ok)
       => state'.ID = state.ID]_vars

\* C15 witness: a successful Update after Create whose plan held no
\* identifier; the persisted one is still the created one.
C15_Witness ==
  /\ DashboardOp("Update") /\ last.ok
  /\ last.plan.ID = UnknownStr
  /\ last.prev.ID = NewID
  /\ state.ID = NewID

\* The canonicalizer specification applied that function last.
CanonOp(op) == kind = "condition" /\ last.op = op

\* The rule table as the specification lists it: the default keys, the default
\* value of each, and the positions a positional default is a default in.
DefaultKeys ==
  {"groupBy", "IsAnomaly", "QueriesUsedInFormula", "absentFor", "alertOnAbsent",
   "hidden", "reduceTo", "spaceAggregation", "timeAggregation"}

DefaultOf(key) ==
  CASE key = "groupBy" -> DArr(<< >>)
    [] key \in {"IsAnomaly", "alertOnAbsent"} -> DBool(FALSE)
    [] key = "QueriesUsedInFormula" -> DNull
    [] key = "absentFor" -> DNum(0)
    [] key = "hidden" -> DBool(TRUE)
    [] OTHER -> DStr("")

IsDefaultPair(p) == p.key \in DefaultKeys /\ p.doc = DefaultOf(p.key)

Home(key) ==
  CASE key = "hidden" -> {"A"}
    [] key \in {"reduceTo", "spaceAggregation", "timeAggregation"} -> {"F1"}
    [] OTHER -> Positions

PairsOf(d) == {Pool[d.pairs[i]] : i \in DOMAIN d.pairs}

\* The object of a canonical tree that holds the pairs of the text.
Inner(pos, tree) ==
  IF pos = "root" THEN tree.o
  ELSE IF pos = "prom" THEN tree.o["compositeQuery"].o["promQueries"].o["A"].o
  ELSE tree.o["compositeQuery"].o["builderQueries"].o[pos].o

\* C16: normalizing the serialized result of normalizing a valid text gives
\* the same canonical tree and the same serialized text as normalizing once.
C16_CanonicalizationIsIdempotent ==
  (CanonOp("normalizeJSON") /\ last.once.ok)
    => /\ last.twice.ok
       /\ last.twice.text = last.once.text
       /\ last.treeAgain = last.tree

\* C16 witness: a text with an empty groupBy inside query A, which the first
\* normalization strips and the second leaves alone.
C16_Witness ==
  /\ CanonOp("normalizeJSON")
  /\ config.a.pos = "A" /\ config.a.pairs = <<1>>
  /\ last.once.text # TextOf(config.a)
  /\ "groupBy" \notin DOMAIN Inner("A", last.tree)
  /\ last.twice.text = last.once.text

\* C17: on valid texts the comparator is reflexive, symmetric and transitive.
C17_ComparatorIsEquivalence ==
  (CanonOp("areJSONsSemanticallyEqual") /\ config.a.json /\ config.b.json)
    => /\ last.aa
       /\ last.ab <=> last.ba
       /\ (last.ab /\ last.bc) => last.ac

\* C17 witness: three different texts that are pairwise equivalent.
C17_Witness ==
  /\ CanonOp("areJSONsSemanticallyEqual")
  /\ TextOf(config.a) # TextOf(config.b)
  /\ TextOf(config.b) # TextOf(config.c)
  /\ TextOf(config.a) # TextOf(config.c)
  /\ last.ab /\ last.ba /\ last.bc /\ last.ac

\* C18 (as claimed): two valid texts that differ only in the order of the
\* keys and in the presence of default-valued pairs are reported equivalent.
C18_OrderAndDefaultsTolerated ==
  (CanonOp("areJSONsSemanticallyEqual") /\ config.a.json /\ config.b.json
     /\ \A p \in (PairsOf(config.a) \cup PairsOf(config.b))
                   \ (PairsOf(config.a) \cap PairsOf(config.b)) :
          IsDefaultPair(p) /\ config.a.pos \in Home(p.key))
    => last.ab

\* C19: canonicalization drops a pair only when its key is a default key and
\* its value that key's default; every other pair is kept, and two texts that
\* are reported equivalent hold the same pairs of that kind.
C19_RuleTableIsClosed ==
  /\ (CanonOp("normalizeJSON") /\ last.once.ok)
       => LET inner == Inner(config.a.pos, last.tree)
          IN /\ "x" \in DOMAIN inner
             /\ \A p \in PairsOf(config.a) :
                  /\ p.key \notin DOMAIN inner => IsDefaultPair(p)
                  /\ ~IsDefaultPair(p)
                       => /\ p.key \in DOMAIN inner
                          /\ p.doc.d \notin {"object", "array"}
                               => inner[p.key] = Decode(p.doc)
  /\ (CanonOp("areJSONsSemanticallyEqual") /\ last.ab)
       => {p \in PairsOf(config.a) : ~IsDefaultPair(p)}
            = {p \in PairsOf(config.b) : ~IsDefaultPair(p)}

\* C19 witness: hidden = false against the text without it: not equivalent.
C19_Witness ==
  /\ CanonOp("areJSONsSemanticallyEqual")
  /\ config.a.pairs = <<10>> /\ config.b.pairs = << >> /\ config.b.json
  /\ ~last.ab /\ ~last.ba

\* C20 (as claimed): hidden = true is dropped inside query A only and an empty
\* reduceTo or timeAggregation inside F1 only; anywhere else the pair is kept
\* and two texts that differ in it are not equivalent.
C20_PositionalDefaults ==
  /\ (CanonOp("normalizeJSON") /\ last.once.ok)
       => \A p \in PairsOf(config.a) :
            (IsDefaultPair(p) /\ config.a.pos \notin Home(p.key))
              => p.key \in DOMAIN Inner(config.a.pos, last.tree)
  /\ (CanonOp("areJSONsSemanticallyEqual") /\ last.ab)
       => {p \in PairsOf(config.a) :
             ~(IsDefaultPair(p) /\ config.a.pos \in Home(p.key))}
            = {p \in PairsOf(config.b) :
                 ~(IsDefaultPair(p) /\ config.b.pos \in Home(p.key))}

\* Two pairs that differ only in the order of the elements of their arrays.
Reordered(p, q) ==
  /\ p.key = q.key /\ p.doc.d = "array" /\ q.doc.d = "array"
  /\ p.doc # q.doc
  /\ Len(p.doc.a) = Len(q.doc.a)
  /\ {p.doc.a[i] : i \in DOMAIN p.doc.a} = {q.doc.a[i] : i \in DOMAIN q.doc.a}

\* C21: a sequence that canonicalization keeps comes out with the same length
\* and, at each index, the canonical form of the element written at that
\* index; two texts that differ only in the order of the elements of an array
\* are not equivalent.
C21_SequenceOrderIsSignificant ==
  /\ (CanonOp("normalizeJSON") /\ last.once.ok)
       => \A p \in PairsOf(config.a) :
            (p.doc.d = "array" /\ ~IsDefaultPair(p))
              => LET out == Inner(config.a.pos, last.tree)[p.key]
                 IN /\ out.t = "slice"
                    /\ Len(out.a) = Len(p.doc.a)
                    /\ \A i \in DOMAIN p.doc.a :
                         out.a[i] = removeDefaultFields(Decode(p.doc.a[i]))
  /\ (CanonOp("areJSONsSemanticallyEqual") /\ config.a.json /\ config.b.json
        /\ config.a.xfirst = config.b.xfirst
        /\ Len(config.a.pairs) = 1 /\ Len(config.b.pairs) = 1
        /\ Reordered(Pool[config.a.pairs[1]], Pool[config.b.pairs[1]]))
       => ~last.ab /\ ~last.ba

\* C21 witness: an array holding an object and a string against the array
\* holding them the other way round; the default inside the object is dropped
\* at its index and the two texts are reported different.
C21_Witness ==
  /\ CanonOp("areJSONsSemanticallyEqual")
  /\ config.a.json /\ config.b.json /\ config.a.xfirst = config.b.xfirst
  /\ config.a.pairs = <<16>> /\ config.b.pairs = <<17>>
  /\ removeDefaultFields(Unmarshal(TextOf(config.a))) # Unmarshal(TextOf(config.a))
  /\ ~last.ab

\* C22: when either text given to the comparator is not JSON the comparator
\* returns false, also when both are the same text that is not JSON.
C22_InvalidTextIsNeverEquivalent ==
  CanonOp("areJSONsSemanticallyEqual")
    => /\ ~config.a.json => (~last.aa /\ ~last.ab /\ ~last.ba /\ ~last.ac)
       /\ ~config.b.json => (~last.ab /\ ~last.ba /\ ~last.bc)

\* C22 witness: the same invalid text on both sides, reported not equivalent.
C22_Witness ==
  /\ CanonOp("areJSONsSemanticallyEqual")
  /\ ~config.a.json /\ ~config.b.json
  /\ TextOf(config.a) = TextOf(config.b)
  /\ ~last.aa /\ ~last.ab

\* C23: after removeDefaultFields returns, every container of the tree it was
\* given holds what it held before, no container reachable from the result is
\* one reachable from the input, and the result is the canonical tree; this
\* holds of the resource package's function and of the model package's.
C23_InputIsNotMutated ==
  CanonOp("removeDefaultFields")
    => /\ \A at \in DOMAIN last.before :
            last.after[at] = last.before[at] /\ last.modelAfter[at] = last.before[at]
       /\ Value(last.after, last.data) = last.tree
       /\ Value(last.modelAfter, last.data) = last.tree
       /\ Reach(last.after, last.result) \cap Reach(last.before, last.data) = {}
       /\ Reach(last.modelAfter, last.modelResult)
            \cap Reach(last.before, last.data) = {}
       /\ Value(last.after, last.result) = removeDefaultFields(last.tree)
       /\ Value(last.modelAfter, last.modelResult) = modelRemoveDefaultFields(last.tree)

\* C23 witness: a tree with nested maps and a sequence, a default inside the
\* sequence's object dropped from the result and still present in the input.
C23_Witness ==
  /\ CanonOp("removeDefaultFields")
  /\ config.a.pos = "A" /\ config.a.pairs = <<16>>
  /\ Cardinality(Reach(last.before, last.data)) = 6
  /\ Cardinality(Reach(last.after, last.result)) = 6
  /\ Value(last.after, last.result) # last.tree
  /\ Value(last.after, last.data) = last.tree

\* C24 (as claimed): the digests SetWidgets computes for two widgets texts
\* that are equal after canonical serialization are the same, and the digest
\* of a text computed twice is the same.
C24_DigestIgnoresFormatting ==
  (kind = "widgets" /\ last.op = "SetWidgets")
    => /\ last.again = last.a
       /\ (config.a.valid /\ config.b.valid
             /\ Marshal(Unmarshal(config.a)) = Marshal(Unmarshal(config.b)))
            => last.a = last.b

\* C25 (as claimed): when the read observes the widgets value the text
\* submitted holds, the digest WidgetsToTerraform computes over it equals the
\* digest SetWidgets computed over the submitted text.
C25_ReadDigestAgreesWithSubmitted ==
  (kind = "widgets" /\ last.op = "WidgetsToTerraform")
    => last.observed = last.submitted

\* C28 (as claimed): when Dashboard.UnmarshalJSON returns an error the
\* receiving Dashboard is as it was before the call.
C28_FailureLeavesReceiver ==
  (kind = "response" /\ last.op = "UnmarshalJSON" /\ last.err)
    => last.d = config.d

\* C26 (as claimed): the text read back after SetCondition, serialization,
\* parsing and ConditionToTerraform is equivalent to the condition given.
C26_InjectionAndStrippingAreSymmetric ==
  CanonOp("SetCondition") => last.same

\* The keys normalizeCondition may add to the object at a position, and the
\* value it adds for each.
Injected(pos) ==
  CASE pos = "root" -> {"absentFor", "alertOnAbsent"}
    [] pos = "A" -> {"IsAnomaly", "QueriesUsedInFormula", "groupBy", "hidden"}
    [] pos = "B" -> {"IsAnomaly", "QueriesUsedInFormula", "groupBy"}
    [] pos = "F1" -> {"IsAnomaly", "QueriesUsedInFormula", "groupBy",
                      "reduceTo", "spaceAggregation", "timeAggregation"}
    [] OTHER -> {}

InjectedValue(key) ==
  CASE key = "absentFor" -> GoInt(0)
    [] key \in {"alertOnAbsent", "IsAnomaly"} -> JBool(FALSE)
    [] key = "QueriesUsedInFormula" -> JNull
    [] key = "groupBy" -> JArr(<< >>)
    [] key = "hidden" -> JBool(TRUE)
    [] OTHER -> JStr("")

\* C30: in the condition normalizeCondition returns, every key the condition
\* given holds with a non-null value holds that value; a key that is new, or
\* was null and is not any more, is one of the defaults of its position (hidden
\* for the builder query A only, the empty aggregation strings for F1 only)
\* with the default value; at the root only absentFor and alertOnAbsent are
\* added; a query under compositeQuery.promQueries is as it was given.
C30_NormalizeNeverOverrides ==
  CanonOp("SetCondition")
    => LET pos == config.a.pos
           g == Inner(pos, JObj(last.given))
           p == Inner(pos, JObj(last.payload))
       IN /\ \A k \in DOMAIN g :
               g[k] # JNull => (k \in DOMAIN p /\ p[k] = g[k])
          /\ \A k \in DOMAIN p :
               (k \notin DOMAIN g \/ p[k] # g[k])
                 => (k \in Injected(pos) /\ p[k] = InjectedValue(k))
          /\ \A k \in Injected(pos) : k \in DOMAIN p
          /\ DOMAIN last.payload \ DOMAIN last.given \subseteq Injected("root")
          /\ pos = "prom"
               => last.payload["compositeQuery"] = last.given["compositeQuery"]

\* C30 witness: query A given with hidden = false keeps it, next to the
\* defaults normalizeCondition adds around it.
C30_Witness ==
  /\ CanonOp("SetCondition")
  /\ config.a.pos = "A" /\ config.a.pairs = <<10>>
  /\ Inner("A", JObj(last.payload))["hidden"] = JBool(FALSE)
  /\ Inner("A", JObj(last.payload))["IsAnomaly"] = JBool(FALSE)
  /\ "IsAnomaly" \notin DOMAIN Inner("A", JObj(last.given))
  /\ last.payload["absentFor"] = GoInt(0)

\* C29 (as claimed): the labels SetLabels builds hold managedBy = terraform,
\* the severity when it is not empty, and every other entry of the label map;
\* LabelsToTerraform on them returns the label map without the keys severity
\* and managedBy.
C29_LabelRoundTrip ==
  (kind = "labels" /\ last.op = "SetLabels")
    => LET L == config.labels
           own == DOMAIN L \ {"severity", AlertTerraformLabelKey}
       IN /\ last.payload[AlertTerraformLabelKey] = AlertTerraformLabelValue
          /\ ValueChars(config.severity) # << >>
               => last.payload["severity"] = ValueChars(config.severity)
          /\ \A k \in own : last.payload[k] = L[k]
          /\ last.back = MapValue([k \in own |-> L[k]])

\* C27 (as claimed): after a successful alert Update every user-settable
\* scalar of the persisted state, the source included, is the one the update
\* request body carried.
C27_UpdateStateAgreesWithPayload ==
  (AlertOp("Update") /\ last.ok)
    => \A f \in {"Alert", "AlertType", "EvalWindow", "Frequency", "RuleType",
                  "Version", "Source"} :
         ValueString(state[f]) = last.payload[f]

====
